---- MODULE Spec2Model ----
(***************************************************************************)
(* Model of the task orchestration of SERENA-UNZIP (src/bot.py).           *)
(*                                                                         *)
(* Every handler of the bot is a coroutine run by one event loop: the code *)
(* between two awaits runs atomically, and other handlers run while a      *)
(* handler is suspended in an await.  An action of this module is one such *)
(* atomic segment; the field pc of a coroutine names the await it is       *)
(* suspended in.                                                           *)
(***************************************************************************)
EXTENDS Integers, Sequences, FiniteSets, TLC

\* ---------------------------------------------------------------- bounds
\* Handler invocations that can be alive at the same time.
MaxTasks == 2
\* Entries the unzip task table can hold at the same time.
MaxEntries == 1
\* Links of one batch.
MaxLinks == 3
\* Links of one batch that runs beside an archive extraction.
RaceLinks == 2
\* Minutes the clock runs.
MaxTime == 2
\* Documents the temp-file collection holds or is sent at the same time.
MaxDocs == 2
\* The longest time-to-live of a document, in minutes.
MaxTtl == 2
\* Handler invocations that can have a temp directory at the same time.
MaxJobs == 1
\* Temp directories that are on disk or referred to at the same time.
MaxPaths == 2
\* Sub-playlists of a manifest.
MaxVariants == 2
\* Words of an inbound text.
MaxWords == 3
\* Files of an extracted archive.
MaxFiles == 2
\* The calls of get_or_create_user in flight, and the days that pass.
MaxCallers == 2
\* The files of an extracted archive.
MaxSent == 2
MaxDays == 1

Users == {1, 2}
Tasks == 1..MaxTasks
EntryIds == 1..MaxEntries
\* Ids of the quality-select task table: room for the menus of one batch.
M3u8Ids == 1..MaxLinks
DocIds == 1..MaxDocs
\* Temp roots: TEMP_DIR/<user_id>/<uuid4>.
Paths == 1..MaxPaths
\* Values of Config.AUTO_DELETE_DEFAULT_MIN: a positive number of minutes.
Ttls == 1..MaxTtl
Jobs == 1..MaxJobs

\* ----------------------------------------------------------------- state
VARIABLES
    user_locks,      \* user id -> asyncio.Lock: [locked, waiters]
    user_cancelled,  \* user id -> cancellation flag
    tasks,           \* unzip task table: set of [id, user_id]
    M3U8_TASKS,      \* quality-select task table: set of [id, user_id]
    coro,            \* handler invocation -> its coroutine's local state
    clock,           \* datetime.utcnow(), in minutes
    files_col,       \* collection temp_files: set of documents
    inserts,         \* documents of the insert_one calls in flight
    disk,            \* temp directories that exist on disk
    sweep,           \* the cleanup worker's coroutine
    job,             \* handler invocation -> its temp directory and progress
    call,            \* the call of a helper function: its input and its result
    progress,        \* utils/progress.py: _last_update, and the transfer it reports
    users            \* database.py: collection users, and the calls that read it

\* The temp-file registry, the disk and what works on them.
store == <<clock, files_col, inserts, disk, sweep, job>>

\* The helper functions of utils/ and what they keep.
helpers == <<call, progress, users>>

\* The in-memory state of the handlers: what a helper call leaves alone.
handlers == <<user_locks, user_cancelled, tasks, M3U8_TASKS, coro>>

vars == <<user_locks, user_cancelled, tasks, M3U8_TASKS, coro, store, helpers>>

\* No helper function has been called.
NoCall == [fn |-> "none"]

\* A slot with no handler running in it.
Idle == [kind |-> "none", pc |-> "idle", user |-> 0, outcome |-> "none",
         stopped |-> FALSE]

\* A handler that has returned: outcome is the message it ended with, and
\* stopped records that it left at a cancellation checkpoint.
Ended(c, o, st) ==
    [kind |-> c.kind, pc |-> "end", user |-> c.user, outcome |-> o, stopped |-> st]

\* A new update is dispatched into a slot whose handler has returned.
CanStart(t) == coro[t].pc \in {"idle", "end"}

\* --------------------------------------------------- asyncio.Lock per user
NewLock == [locked |-> FALSE, waiters |-> <<>>]

\* One lock for all users.
LockedAnyUser(u) == \E v \in Users : user_locks[v].locked
\* lock.locked()
Locked(u) == user_locks[u].locked

\* Lock.acquire() returns at once only when the lock is not held and no
\* waiter is queued; otherwise the caller is appended to the waiters.
AcquiresAtOnce(u) == ~user_locks[u].locked /\ user_locks[u].waiters = <<>>

Acquire(u, t) ==
    IF AcquiresAtOnce(u)
    THEN [user_locks EXCEPT ![u].locked = TRUE]
    ELSE [user_locks EXCEPT ![u].waiters = Append(@, t)]

\* Lock.release(): the lock is free; its first waiter is woken.
Release(u) == [user_locks EXCEPT ![u].locked = FALSE]

\* The segments of a handler that run inside "async with lock".
HeldPcs(kind) ==
    IF kind = "unzip" THEN {"download", "post_download", "extract", "summary"}
    ELSE IF kind = "audio" THEN {"download", "ffmpeg", "upload"}
    ELSE {}

Holds(t) == coro[t].pc \in HeldPcs(coro[t].kind)

\* Leaving the "async with lock" block of coroutine c, on any path.
ExitLock(c) == Release(c.user)

\* ------------------------------------------------------------- cancel_cmd
\* The field asked of a batch is history, not program state: it records that
\* the user asked to cancel while this batch was running.
Asked(c, u) ==
    IF c.kind = "batch" /\ c.pc # "end" /\ c.user = u
    THEN [c EXCEPT !.asked = TRUE] ELSE c

cancel_cmd(u) ==
    /\ user_cancelled' = [user_cancelled EXCEPT ![u] = TRUE]
    /\ coro' = [t \in Tasks |-> Asked(coro[t], u)]
    /\ UNCHANGED <<user_locks, tasks, M3U8_TASKS>>
    /\ UNCHANGED store
    /\ UNCHANGED helpers

\* ---------------------------------------------------------- run_unzip_task
\* The body of "async with lock" up to the first await.
UnzipEnter(u, pw) ==
    [kind |-> "unzip", pc |-> "download", user |-> u, outcome |-> "none",
     stopped |-> FALSE, password |-> pw]

\* The flag is cleared before the lock is tested.
UnzipBeginClearsFirst(t, u, pw) ==
    /\ CanStart(t)
    /\ user_cancelled' = [user_cancelled EXCEPT ![u] = FALSE]
    /\ IF Locked(u)
       THEN /\ coro' = [coro EXCEPT ![t] = Ended(UnzipEnter(u, pw), "busy", FALSE)]
            /\ UNCHANGED user_locks
       ELSE /\ user_locks' = Acquire(u, t)
            /\ coro' = [coro EXCEPT ![t] =
                   IF AcquiresAtOnce(u) THEN UnzipEnter(u, pw)
                   ELSE [UnzipEnter(u, pw) EXCEPT !.pc = "wait_lock"]]
    /\ UNCHANGED <<tasks, M3U8_TASKS>>
    /\ UNCHANGED store
    /\ UNCHANGED helpers

UnzipBegin(t, u, pw) ==
    /\ CanStart(t)
    /\ IF Locked(u)
       THEN /\ coro' = [coro EXCEPT ![t] = Ended(UnzipEnter(u, pw), "busy", FALSE)]
            /\ UNCHANGED <<user_locks, user_cancelled>>
       ELSE /\ user_locks' = Acquire(u, t)
            /\ IF AcquiresAtOnce(u)
               THEN /\ user_cancelled' = [user_cancelled EXCEPT ![u] = FALSE]
                    /\ coro' = [coro EXCEPT ![t] = UnzipEnter(u, pw)]
               ELSE /\ UNCHANGED user_cancelled
                    /\ coro' = [coro EXCEPT ![t] =
                           [UnzipEnter(u, pw) EXCEPT !.pc = "wait_lock"]]
    /\ UNCHANGED <<tasks, M3U8_TASKS>>
    /\ UNCHANGED store
    /\ UNCHANGED helpers

\* client.download_media returns a path, returns nothing, or raises.
UnzipDownload(t, res) ==
    /\ coro[t].kind = "unzip" /\ coro[t].pc = "download"
    /\ IF res = "ok"
       THEN /\ coro' = [coro EXCEPT ![t].pc = "post_download"]
            /\ UNCHANGED user_locks
       ELSE /\ coro' = [coro EXCEPT ![t] = Ended(@,
                   IF res = "raise" THEN "download_failed" ELSE "download_missing",
                   FALSE)]
            /\ user_locks' = ExitLock(coro[t])
    /\ UNCHANGED <<user_cancelled, tasks, M3U8_TASKS>>
    /\ UNCHANGED store
    /\ UNCHANGED helpers

\* The checkpoint after the download, then the probe for a password.
UnzipCheckpoint1(t, enc) ==
    /\ coro[t].kind = "unzip" /\ coro[t].pc = "post_download"
    /\ IF user_cancelled[coro[t].user]
       THEN /\ coro' = [coro EXCEPT ![t] = Ended(@, "cancelled", TRUE)]
            /\ user_locks' = ExitLock(coro[t])
       ELSE IF ~coro[t].password /\ enc
       THEN /\ coro' = [coro EXCEPT ![t] = Ended(@, "needs_password", FALSE)]
            /\ user_locks' = ExitLock(coro[t])
       ELSE /\ coro' = [coro EXCEPT ![t].pc = "extract"]
            /\ UNCHANGED user_locks
    /\ UNCHANGED <<user_cancelled, tasks, M3U8_TASKS>>
    /\ UNCHANGED store
    /\ UNCHANGED helpers

\* The ids of the task table that are in use, and a fresh one.
UsedIds == {e.id : e \in tasks}
FreshId == CHOOSE i \in EntryIds : i \notin UsedIds

\* "except Exception as e" around extract_archive: the reply is
\* "Extract error:" followed by e, the diagnostic of the codec (a corrupt
\* archive, or a password that does not open it).
ExtractError(c, e) ==
    [kind |-> c.kind, pc |-> "end", user |-> c.user, outcome |-> "extract_error",
     stopped |-> FALSE, diagnostic |-> e]

\* The task entry is made before the checkpoint is read.
UnzipExtractEntryFirst(t, res) ==
    /\ coro[t].kind = "unzip" /\ coro[t].pc = "extract"
    /\ UsedIds # EntryIds
    /\ res = "wrong_password" => coro[t].password
    /\ IF res \in {"raise", "wrong_password"}
       THEN /\ coro' = [coro EXCEPT ![t] = ExtractError(@, res)]
            /\ user_locks' = ExitLock(coro[t])
            /\ UNCHANGED tasks
       ELSE /\ tasks' = tasks \cup {[id |-> FreshId, user_id |-> coro[t].user]}
            /\ IF user_cancelled[coro[t].user]
               THEN /\ coro' = [coro EXCEPT ![t] = Ended(@, "cancelled", TRUE)]
                    /\ user_locks' = ExitLock(coro[t])
               ELSE /\ coro' = [coro EXCEPT ![t].pc = "summary"]
                    /\ UNCHANGED user_locks
    /\ UNCHANGED <<user_cancelled, M3U8_TASKS>>
    /\ UNCHANGED store
    /\ UNCHANGED helpers

\* extract_archive (synchronous), the checkpoint after it, the task entry.
\* Only a password that was supplied can be the wrong one.
UnzipExtract(t, res) ==
    /\ coro[t].kind = "unzip" /\ coro[t].pc = "extract"
    /\ UsedIds # EntryIds
    /\ res = "wrong_password" => coro[t].password
    /\ IF res \in {"raise", "wrong_password"}
       THEN /\ coro' = [coro EXCEPT ![t] = ExtractError(@, res)]
            /\ user_locks' = ExitLock(coro[t])
            /\ UNCHANGED tasks
       ELSE IF user_cancelled[coro[t].user]
       THEN /\ coro' = [coro EXCEPT ![t] = Ended(@, "cancelled", TRUE)]
            /\ user_locks' = ExitLock(coro[t])
            /\ UNCHANGED tasks
       ELSE /\ tasks' = tasks \cup {[id |-> FreshId, user_id |-> coro[t].user]}
            /\ coro' = [coro EXCEPT ![t].pc = "summary"]
            /\ UNCHANGED user_locks
    /\ UNCHANGED <<user_cancelled, M3U8_TASKS>>
    /\ UNCHANGED store
    /\ UNCHANGED helpers

\* The summary is shown and the user's statistics are updated.
UnzipFinish(t) ==
    /\ coro[t].kind = "unzip" /\ coro[t].pc = "summary"
    /\ coro' = [coro EXCEPT ![t] = Ended(@, "success", FALSE)]
    /\ user_locks' = ExitLock(coro[t])
    /\ UNCHANGED <<user_cancelled, tasks, M3U8_TASKS>>
    /\ UNCHANGED store
    /\ UNCHANGED helpers

\* The exception leaves the handler without releasing the lock.
UnzipRaiseLeak(t) ==
    /\ coro[t].kind = "unzip" /\ coro[t].pc \in {"download", "extract", "summary"}
    /\ coro' = [coro EXCEPT ![t] = Ended(@, "exception", FALSE)]
    /\ UNCHANGED <<user_locks, user_cancelled, tasks, M3U8_TASKS>>
    /\ UNCHANGED store
    /\ UNCHANGED helpers

\* An await outside every try block raises (a reply or an edit fails).
UnzipRaise(t) ==
    /\ coro[t].kind = "unzip" /\ coro[t].pc \in {"download", "extract", "summary"}
    /\ coro' = [coro EXCEPT ![t] = Ended(@, "exception", FALSE)]
    /\ user_locks' = ExitLock(coro[t])
    /\ UNCHANGED <<user_cancelled, tasks, M3U8_TASKS>>
    /\ UNCHANGED store
    /\ UNCHANGED helpers

\* ------------------------------------------------------ handle_extract_audio
AudioBegin(t, u, video) ==
    /\ CanStart(t)
    /\ coro' = [coro EXCEPT ![t] =
          [kind |-> "audio", user |-> u, stopped |-> FALSE,
           pc |-> IF video /\ ~Locked(u) THEN "answer" ELSE "end",
           outcome |-> IF ~video THEN "not_video"
                       ELSE IF Locked(u) THEN "busy" ELSE "none"]]
    /\ UNCHANGED <<user_locks, user_cancelled, tasks, M3U8_TASKS>>
    /\ UNCHANGED store
    /\ UNCHANGED helpers

\* After "await cq.answer()": async with lock.
AudioAcquire(t) ==
    /\ coro[t].kind = "audio" /\ coro[t].pc = "answer"
    /\ user_locks' = Acquire(coro[t].user, t)
    /\ coro' = [coro EXCEPT ![t].pc =
          IF AcquiresAtOnce(coro[t].user) THEN "download" ELSE "wait_lock"]
    /\ UNCHANGED <<user_cancelled, tasks, M3U8_TASKS>>
    /\ UNCHANGED store
    /\ UNCHANGED helpers

AudioDownload(t, res) ==
    /\ coro[t].kind = "audio" /\ coro[t].pc = "download"
    /\ IF res = "ok"
       THEN /\ coro' = [coro EXCEPT ![t].pc = "ffmpeg"]
            /\ UNCHANGED user_locks
       ELSE /\ coro' = [coro EXCEPT ![t] = Ended(@,
                   IF res = "raise" THEN "download_failed" ELSE "download_missing",
                   FALSE)]
            /\ user_locks' = ExitLock(coro[t])
    /\ UNCHANGED <<user_cancelled, tasks, M3U8_TASKS>>
    /\ UNCHANGED store
    /\ UNCHANGED helpers

\* extract_audio (ffmpeg) succeeds or raises.
AudioExtract(t, res) ==
    /\ coro[t].kind = "audio" /\ coro[t].pc = "ffmpeg"
    /\ IF res = "ok"
       THEN /\ coro' = [coro EXCEPT ![t].pc = "upload"]
            /\ UNCHANGED user_locks
       ELSE /\ coro' = [coro EXCEPT ![t] = Ended(@, "ffmpeg_error", FALSE)]
            /\ user_locks' = ExitLock(coro[t])
    /\ UNCHANGED <<user_cancelled, tasks, M3U8_TASKS>>
    /\ UNCHANGED store
    /\ UNCHANGED helpers

\* send_document: its failure is swallowed by the handler.
AudioUpload(t) ==
    /\ coro[t].kind = "audio" /\ coro[t].pc = "upload"
    /\ coro' = [coro EXCEPT ![t] = Ended(@, "success", FALSE)]
    /\ user_locks' = ExitLock(coro[t])
    /\ UNCHANGED <<user_cancelled, tasks, M3U8_TASKS>>
    /\ UNCHANGED store
    /\ UNCHANGED helpers

\* An await outside every try block raises.
AudioRaise(t) ==
    /\ coro[t].kind = "audio" /\ coro[t].pc \in {"answer", "download", "upload"}
    /\ coro' = [coro EXCEPT ![t] = Ended(@, "exception", FALSE)]
    /\ user_locks' = IF coro[t].pc = "answer" THEN user_locks ELSE ExitLock(coro[t])
    /\ UNCHANGED <<user_cancelled, tasks, M3U8_TASKS>>
    /\ UNCHANGED store
    /\ UNCHANGED helpers

\* ------------------------------------------- a waiter of the lock is woken
\* The first waiter of a released lock takes it and enters the block.
LockWake(t) ==
    /\ coro[t].pc = "wait_lock"
    /\ ~Locked(coro[t].user)
    /\ user_locks[coro[t].user].waiters # <<>>
    /\ Head(user_locks[coro[t].user].waiters) = t
    /\ user_locks' = [user_locks EXCEPT ![coro[t].user] =
          [locked |-> TRUE, waiters |-> Tail(@.waiters)]]
    /\ coro' = [coro EXCEPT ![t].pc = "download"]
    /\ user_cancelled' = IF coro[t].kind = "unzip"
                         THEN [user_cancelled EXCEPT ![coro[t].user] = FALSE]
                         ELSE user_cancelled
    /\ UNCHANGED <<tasks, M3U8_TASKS>>
    /\ UNCHANGED store
    /\ UNCHANGED helpers

\* ------------------------------------------------ callbacks: "ucancel|<id>"
UnzipSessionCancel(id) ==
    /\ id \in UsedIds
    /\ tasks' = {e \in tasks : e.id # id}
    /\ UNCHANGED <<user_locks, user_cancelled, M3U8_TASKS, coro>>
    /\ UNCHANGED store
    /\ UNCHANGED helpers

\* ------------------------------------------------ handle_links_download_all
\* A link of the inbound text, by what the handler's collaborators make of
\* it: its category, and for a cloud-drive link whether it can be rewritten.
LinkKinds == {"direct", "unknown", "gdrive", "gdrive_norewrite", "m3u8", "telegram"}

\* The category the handler files a link under (cats[kind].append(url)).
Category(l) == IF l = "gdrive_norewrite" THEN "gdrive" ELSE l

\* get_gdrive_direct_link(url): a direct URL, or nothing.
get_gdrive_direct_link(l) == IF l = "gdrive" THEN "direct_url" ELSE "none"

\* The positions of all_links filed under category k, in their order.
RECURSIVE Filed(_, _, _)
Filed(links, k, i) ==
    IF i > Len(links) THEN <<>>
    ELSE (IF Category(links[i]) = k THEN <<i>> ELSE <<>>) \o Filed(links, k, i + 1)

direct_links(links) == Filed(links, "direct", 1)
unknown_links(links) == Filed(links, "unknown", 1)
gdrive_links(links) == Filed(links, "gdrive", 1)
m3u8_links(links) == Filed(links, "m3u8", 1)
\* Unknown links are left out of the candidates.
candidate_direct_known(links) == direct_links(links)

candidate_direct(links) == direct_links(links) \o unknown_links(links)

\* The text has links and none that the handler processes.
Unsupported(links) ==
    /\ candidate_direct(links) = <<>>
    /\ m3u8_links(links) = <<>>
    /\ gdrive_links(links) = <<>>

\* The cloud-drive loop placed before the direct loop.
LoopOrderDriveFirst == <<"gdrive", "direct", "m3u8">>

\* The loops of the handler in the order the code runs them; phase is the
\* position of the running loop in this order.
LoopOrder == <<"direct", "gdrive", "m3u8">>

\* The list a loop iterates over.
LoopItems(loop, links) ==
    IF loop = "direct" THEN candidate_direct(links)
    ELSE IF loop = "gdrive" THEN gdrive_links(links)
    ELSE m3u8_links(links)

\* The checkpoint at the head of every loop iteration.
Checkpoint(cancelled) == cancelled

\* The link is skipped without being counted.
NoRewriteSkipped(fail) == fail

\* What a cloud-drive link that cannot be rewritten adds to the counters.
NoRewriteFail(fail) == fail + 1

\* What the end of a fetch-and-upload adds to the counters.
CountOk(ok, res) == IF res = "ok" THEN ok + 1 ELSE ok
CountFail(fail, res) == IF res = "ok" THEN fail ELSE fail + 1

\* From the head of a loop iteration to the next await: the loops end or
\* break one after the other, a link that cannot be rewritten is counted and
\* skipped, and the handler suspends in a fetch, a quality menu or the report.
RECURSIVE Advance(_, _)
Advance(c, cancelled) ==
    LET loop == LoopOrder[c.phase]
        items == LoopItems(loop, c.links)
        over == c.idx > Len(items)
        brk == ~over /\ Checkpoint(cancelled)
    IN  IF over \/ brk
        THEN IF c.phase = Len(LoopOrder)
             THEN [c EXCEPT !.pc = "report", !.stopped = @ \/ brk]
             ELSE Advance([c EXCEPT !.phase = @ + 1, !.idx = 1,
                                    !.stopped = @ \/ brk], cancelled)
        ELSE LET here == [c EXCEPT !.log = Append(@, items[c.idx])]
             IN  IF loop = "m3u8" THEN [here EXCEPT !.pc = "menu"]
                 ELSE IF loop = "gdrive"
                         /\ get_gdrive_direct_link(c.links[items[c.idx]]) = "none"
                 THEN Advance([here EXCEPT !.idx = @ + 1,
                                           !.fail = NoRewriteFail(@)], cancelled)
                 ELSE [here EXCEPT !.pc = "fetch"]

\* A batch that has returned; pin is what it did to its status message:
\* "none", "pinned", or "unpinned" once unpin_chat_message was called.
BatchEnded(c, o) ==
    [kind |-> c.kind, pc |-> "end", user |-> c.user, outcome |-> o,
     stopped |-> c.stopped, pin |-> c.pin]

BatchEnter(u, links) ==
    [kind |-> "batch", pc |-> "setup", user |-> u, outcome |-> "none",
     stopped |-> FALSE, links |-> links, phase |-> 1, idx |-> 1,
     ok |-> 0, fail |-> 0, log |-> <<>>, asked |-> FALSE, pin |-> "none"]

\* Up to the awaits before the first loop (register, edit, pin).
BatchBegin(t, u, links) ==
    /\ CanStart(t)
    /\ Cardinality(M3U8_TASKS) + Len(m3u8_links(links)) <= Cardinality(M3u8Ids)
    /\ coro' = [coro EXCEPT ![t] =
          IF links = <<>>
          THEN BatchEnded(BatchEnter(u, links), "no_links")
          ELSE IF Unsupported(links)
          THEN BatchEnded(BatchEnter(u, links), "unsupported")
          ELSE BatchEnter(u, links)]
    /\ UNCHANGED <<user_locks, user_cancelled, tasks, M3U8_TASKS>>
    /\ UNCHANGED store
    /\ UNCHANGED helpers

\* The handler resumes at the head of a loop iteration: after the awaits
\* before the first loop, or after asyncio.sleep(0.5) at the end of an item.
\* In a private chat the status message is pinned before the first loop;
\* a pin that fails is swallowed.
BatchLoop(t, pin) ==
    /\ coro[t].kind = "batch" /\ coro[t].pc \in {"setup", "sleep"}
    /\ pin => coro[t].pc = "setup"
    /\ coro' = [coro EXCEPT ![t] =
          Advance([@ EXCEPT !.pin = IF pin THEN "pinned" ELSE @],
                  user_cancelled[coro[t].user])]
    /\ UNCHANGED <<user_locks, user_cancelled, tasks, M3U8_TASKS>>
    /\ UNCHANGED store
    /\ UNCHANGED helpers

\* A failed item ends the loops: the handler goes to its report.
BatchFetchDoneAbort(t, res) ==
    /\ coro[t].kind = "batch" /\ coro[t].pc = "fetch"
    /\ coro' = [coro EXCEPT ![t] =
          [@ EXCEPT !.pc = IF res = "ok" THEN "sleep" ELSE "report", !.idx = @ + 1,
                    !.ok = CountOk(@, res), !.fail = CountFail(@, res)]]
    /\ UNCHANGED <<user_locks, user_cancelled, tasks, M3U8_TASKS>>
    /\ UNCHANGED store
    /\ UNCHANGED helpers

\* The fetch and upload of the item in flight end: sent, or an exception.
BatchFetchDone(t, res) ==
    /\ coro[t].kind = "batch" /\ coro[t].pc = "fetch"
    /\ coro' = [coro EXCEPT ![t] =
          [@ EXCEPT !.pc = "sleep", !.idx = @ + 1,
                    !.ok = CountOk(@, res), !.fail = CountFail(@, res)]]
    /\ UNCHANGED <<user_locks, user_cancelled, tasks, M3U8_TASKS>>
    /\ UNCHANGED store
    /\ UNCHANGED helpers

FreshM3u8Id == CHOOSE i \in M3u8Ids : i \notin {e.id : e \in M3U8_TASKS}

\* offer_m3u8_quality_menu returns: a menu and its task entry, or the report
\* of a manifest that could not be parsed; the next iteration follows at once.
BatchMenuDone(t, res) ==
    /\ coro[t].kind = "batch" /\ coro[t].pc = "menu"
    /\ M3U8_TASKS' = IF res = "variants"
                     THEN M3U8_TASKS \cup {[id |-> FreshM3u8Id, user_id |-> coro[t].user]}
                     ELSE M3U8_TASKS
    /\ coro' = [coro EXCEPT ![t] =
          Advance([@ EXCEPT !.idx = @ + 1], user_cancelled[coro[t].user])]
    /\ UNCHANGED <<user_locks, user_cancelled, tasks>>
    /\ UNCHANGED store
    /\ UNCHANGED helpers

\* "if is_private and pinned": unpin_chat_message is called.
Unpin(c) == [c EXCEPT !.pin = IF @ = "pinned" THEN "unpinned" ELSE @]

\* The final counters are shown, the message unpinned.
BatchReport(t) ==
    /\ coro[t].kind = "batch" /\ coro[t].pc = "report"
    /\ coro' = [coro EXCEPT ![t] = BatchEnded(Unpin(@), "complete")]
    /\ UNCHANGED <<user_locks, user_cancelled, tasks, M3U8_TASKS>>
    /\ UNCHANGED store
    /\ UNCHANGED helpers

\* An await outside every try block raises: register_temp_path, a
\* send_message of offer_m3u8_quality_menu, or the send_message that
\* follows the unpin.
BatchRaise(t) ==
    /\ coro[t].kind = "batch" /\ coro[t].pc \in {"setup", "menu", "report"}
    /\ coro[t].pc = "report" => coro[t].pin = "pinned"
    /\ coro' = [coro EXCEPT ![t] =
          BatchEnded(IF coro[t].pc = "report" THEN Unpin(@) ELSE @, "exception")]
    /\ UNCHANGED <<user_locks, user_cancelled, tasks, M3U8_TASKS>>
    /\ UNCHANGED store
    /\ UNCHANGED helpers

\* All texts of at most n links.
RECURSIVE LinkTexts(_)
LinkTexts(n) ==
    IF n = 0 THEN {<<>>}
    ELSE LinkTexts(n - 1) \cup
         {Append(s, l) : s \in {x \in LinkTexts(n - 1) : Len(x) = n - 1}, l \in LinkKinds}

BatchTexts == LinkTexts(MaxLinks)
RaceTexts == LinkTexts(RaceLinks)

\* ------------------------------- callbacks on the buttons of a summary
\* tasks.get(task_id)
TaskInfo(id) == CHOOSE e \in tasks : e.id = id

\* handle_send_all and handle_send_one, their first lines: the task is
\* looked up and the presser compared with its owner.
OwnerCheck(u, id) ==
    IF id \notin UsedIds THEN "expired"
    ELSE IF u # TaskInfo(id).user_id THEN "not_yours"
    ELSE "none"

\* The coroutine of a callback of user u on task id; owner is the task's
\* user_id when the callback found it, sent counts the files it delivered
\* and removed is the owner of the entry it took out of the table.
CallbackEnter(kind, u, id) ==
    [kind |-> kind, pc |-> "loop", user |-> u, outcome |-> "none",
     stopped |-> FALSE, task_id |-> id,
     owner |-> IF id \in UsedIds THEN TaskInfo(id).user_id ELSE 0,
     sent |-> 0, removed |-> 0]

CallbackEnded(c, o) == [c EXCEPT !.pc = "end", !.outcome = o]

\* handle_send_all up to its loop.
SendAllBegin(t, u, id) ==
    /\ CanStart(t)
    /\ LET c == CallbackEnter("sendall", u, id)
           check == OwnerCheck(u, id)
       IN  coro' = [coro EXCEPT ![t] =
              IF check # "none" THEN CallbackEnded(c, check) ELSE c]
    /\ UNCHANGED <<user_locks, user_cancelled, tasks, M3U8_TASKS>>
    /\ UNCHANGED store
    /\ UNCHANGED helpers

\* One iteration of "for rel in files": the checkpoint, then the upload of
\* the file and asyncio.sleep(0.5); after the last file, or at a break, the
\* closing message.
SendAllLoop(t) ==
    /\ coro[t].kind = "sendall" /\ coro[t].pc = "loop"
    /\ coro' = [coro EXCEPT ![t] =
          IF @.sent = MaxSent THEN CallbackEnded(@, "complete")
          ELSE IF Checkpoint(user_cancelled[@.user])
          THEN CallbackEnded([@ EXCEPT !.stopped = TRUE], "complete")
          ELSE [@ EXCEPT !.sent = @ + 1]]
    /\ UNCHANGED <<user_locks, user_cancelled, tasks, M3U8_TASKS>>
    /\ UNCHANGED store
    /\ UNCHANGED helpers

\* handle_send_one: the checks, then the upload of files[index].
SendOne(t, u, id, index) ==
    /\ CanStart(t)
    /\ LET c == CallbackEnter("sendone", u, id)
           check == OwnerCheck(u, id)
       IN  coro' = [coro EXCEPT ![t] =
              IF check # "none" THEN CallbackEnded(c, check)
              ELSE IF index < 0 \/ index >= MaxSent THEN CallbackEnded(c, "invalid")
              ELSE CallbackEnded([c EXCEPT !.sent = 1], "complete")]
    /\ UNCHANGED <<user_locks, user_cancelled, tasks, M3U8_TASKS>>
    /\ UNCHANGED store
    /\ UNCHANGED helpers

\* callbacks, "ucancel|<id>", with the coroutine that runs it:
\* tasks.pop(task_id, None) for whoever pressed the button.
CallbackUcancel(t, u, id) ==
    /\ CanStart(t)
    /\ tasks' = {e \in tasks : e.id # id}
    /\ coro' = [coro EXCEPT ![t] =
          CallbackEnded([CallbackEnter("ucancel", u, id) EXCEPT
                            !.removed = IF id \in UsedIds THEN TaskInfo(id).user_id
                                        ELSE 0],
                        "session_cancelled")]
    /\ UNCHANGED <<user_locks, user_cancelled, M3U8_TASKS>>
    /\ UNCHANGED store
    /\ UNCHANGED helpers

\* ----------------------------------------------- database.py: temp_files
\* The registry is written by the handlers and read only by the cleanup
\* worker: no handler reads it.  The specifications of the orchestration
\* (Spec, SpecBatch, SpecRace) leave it out, and those of the registry
\* (SpecRegistry, SpecSweep) follow a handler only by its temp directory.
orchestration == <<user_locks, user_cancelled, coro>>

\* datetime.utcnow() advances.  An insert_one call in flight is answered
\* before the time-to-live of its document has run out.
Tick ==
    /\ clock < MaxTime
    /\ \A d \in inserts : clock + 1 < d.created_at + d.ttl_min
    /\ clock' = clock + 1
    /\ UNCHANGED <<orchestration, tasks, M3U8_TASKS>>
    /\ UNCHANGED helpers
    /\ UNCHANGED <<files_col, inserts, disk, sweep, job>>

\* The _id the driver gives a document when insert_one is called: one that
\* no document has.
UsedDocIds == {d.id : d \in files_col \cup inserts} \cup sweep.base
FreshDocId == CHOOSE i \in DocIds : i \notin UsedDocIds

\* The document register_temp_path builds: created_at is read when the
\* document is built, before insert_one is awaited.
NewDoc(user_id, path, ttl_min) ==
    [id |-> FreshDocId, user_id |-> user_id, path |-> path,
     created_at |-> clock, ttl_min |-> ttl_min]

\* temp_root.mkdir(parents=True, exist_ok=True)
Mkdir(p) == disk \cup {p}

\* A caller makes its directory and calls register_temp_path.
RegisterCall(u, p, ttl) ==
    /\ UsedDocIds # DocIds
    /\ disk' = Mkdir(p)
    /\ inserts' = inserts \cup {NewDoc(u, p, ttl)}
    /\ UNCHANGED <<orchestration, tasks, M3U8_TASKS>>
    /\ UNCHANGED helpers
    /\ UNCHANGED <<clock, files_col, sweep, job>>

\* The collection stores the document and register_temp_path returns.
RegisterDone(d) ==
    /\ d \in inserts
    /\ files_col' = files_col \cup {d}
    /\ inserts' = inserts \ {d}
    /\ UNCHANGED <<orchestration, tasks, M3U8_TASKS>>
    /\ UNCHANGED helpers
    /\ UNCHANGED <<clock, disk, sweep, job>>

\* ------------------------------------------------- get_expired_temp_paths
\* The test excludes the instant of expiry.
ExpiredStrict(d, now) == d.created_at + d.ttl_min < now

\* created + datetime.timedelta(minutes=ttl_min) <= now
Expired(d, now) == d.created_at + d.ttl_min <= now

\* expired_paths: the path of every expired document, as often as it occurs.
PathList(docs) ==
    [p \in {d.path : d \in docs} |-> Cardinality({d \in docs : d.path = p})]

\* The collection is emptied.
delete_everything(col, ids) == {}

\* Nothing is deleted.
delete_nothing(col, ids) == col

\* One document of every path is deleted.
delete_one_per_path(col, ids) ==
    {d \in col : \/ d.id \notin ids
                 \/ \E e \in col : e.id \in ids /\ e.path = d.path /\ e.id < d.id}

\* files_col.delete_many({"_id": {"$in": expired_ids}})
delete_many(col, ids) == {d \in col : d.id \notin ids}

\* The cleanup worker before its first pass.  The fields swept, prev_now and
\* prev_hit are history: a pass has ended before, and for the pass that is
\* running, the now of the pass before it and whether that returned a path.
NoSweep ==
    [pc |-> "sleep", now |-> 0, base |-> {}, expired_ids |-> {},
     expired_paths |-> PathList({}), swept |-> FALSE, prev_now |-> 0,
     prev_hit |-> FALSE]

\* now is read and the cursor is opened: the documents stored by now are
\* what the cursor is sure to return.
SweepBegin ==
    /\ sweep.pc = "sleep"
    /\ sweep' = [sweep EXCEPT !.pc = "scan", !.now = clock,
                              !.base = {d.id : d \in files_col},
                              !.expired_paths = PathList({}),
                              !.prev_now = sweep.now,
                              !.prev_hit = (DOMAIN sweep.expired_paths # {})]
    /\ UNCHANGED <<orchestration, tasks, M3U8_TASKS>>
    /\ UNCHANGED helpers
    /\ UNCHANGED <<clock, files_col, inserts, disk, job>>

\* The cursor is read to its end: it returns the documents it is sure to
\* return and any of those stored since.  With nothing expired the function
\* returns at once.
SweepScan(seen) ==
    /\ sweep.pc = "scan"
    /\ seen \subseteq files_col
    /\ sweep.base \subseteq {d.id : d \in seen}
    /\ LET expired == {d \in seen : Expired(d, sweep.now)}
       IN  sweep' = [sweep EXCEPT
                        !.pc = IF expired = {} THEN "unlink" ELSE "delete",
                        !.expired_ids = {d.id : d \in expired},
                        !.expired_paths = PathList(expired)]
    /\ UNCHANGED <<orchestration, tasks, M3U8_TASKS>>
    /\ UNCHANGED helpers
    /\ UNCHANGED <<clock, files_col, inserts, disk, job>>

\* delete_many is answered and the paths are returned.
SweepDelete ==
    /\ sweep.pc = "delete"
    /\ files_col' = delete_many(files_col, sweep.expired_ids)
    /\ sweep' = [sweep EXCEPT !.pc = "unlink", !.expired_ids = {}]
    /\ UNCHANGED <<orchestration, tasks, M3U8_TASKS>>
    /\ UNCHANGED helpers
    /\ UNCHANGED <<clock, inserts, disk, job>>

\* cleanup_worker removes the subtree of every returned path (a path that
\* is missing is already clean) and sleeps until its next pass; the paths
\* stay in its local variable.
SweepUnlink ==
    /\ sweep.pc = "unlink"
    /\ disk' = disk \ DOMAIN sweep.expired_paths
    /\ sweep' = [sweep EXCEPT !.pc = "sleep", !.base = {}, !.expired_ids = {},
                              !.swept = TRUE, !.prev_now = 0, !.prev_hit = FALSE]
    /\ UNCHANGED <<orchestration, tasks, M3U8_TASKS>>
    /\ UNCHANGED helpers
    /\ UNCHANGED <<clock, files_col, inserts, job>>

\* -------------------------------------- the temp directory of a handler
\* The handlers that make a temp directory: on_file for a TXT link source,
\* run_unzip_task, handle_extract_audio, handle_links_download_all.
JobKinds == {"txt", "unzip", "audio", "batch"}

\* The fields registered and wrote are history: register_temp_path has
\* returned to this handler, and it has written output under its directory.
NoJob == [kind |-> "none", pc |-> "idle", user |-> 0, path |-> 0, doc |-> 0,
          outcome |-> "none", registered |-> FALSE, wrote |-> FALSE]

\* A handler that has returned: its locals are gone.
JobEnded(c, o) == [c EXCEPT !.pc = "end", !.path = 0, !.doc = 0, !.outcome = o]

JobCanStart(j) == job[j].pc \in {"idle", "end"}

\* uuid.uuid4().hex: a path nothing on disk and nothing in memory has.
UsedPaths ==
    disk \cup {d.path : d \in files_col \cup inserts} \cup DOMAIN sweep.expired_paths
         \cup {e.base_dir : e \in tasks} \cup {e.temp_root : e \in M3U8_TASKS}
         \cup {job[j].path : j \in {i \in Jobs : job[i].pc \notin {"idle", "end"}}}
FreshPath == CHOOSE p \in Paths : p \notin UsedPaths

\* A request with zero links ends before any directory is made: a text
\* message (process_links_message) or "Download all" on a text without URLs.
TempAbort(j, u, kind) ==
    /\ JobCanStart(j)
    /\ job' = [job EXCEPT ![j] = [NoJob EXCEPT !.kind = kind, !.pc = "end",
                                               !.user = u, !.outcome = "no_links"]]
    /\ UNCHANGED <<orchestration, tasks, M3U8_TASKS>>
    /\ UNCHANGED helpers
    /\ UNCHANGED <<clock, files_col, inserts, disk, sweep>>

\* temp_root is made and register_temp_path is called.
TempBegin(j, u, kind, ttl) ==
    /\ JobCanStart(j)
    /\ UsedDocIds # DocIds
    /\ UsedPaths # Paths
    /\ LET p == FreshPath
       IN  /\ disk' = Mkdir(p)
           /\ inserts' = inserts \cup {NewDoc(u, p, ttl)}
           /\ job' = [job EXCEPT ![j] =
                         [NoJob EXCEPT !.kind = kind, !.pc = "register", !.user = u,
                                       !.path = p, !.doc = FreshDocId]]
    /\ UNCHANGED <<orchestration, tasks, M3U8_TASKS>>
    /\ UNCHANGED helpers
    /\ UNCHANGED <<clock, files_col, sweep>>

\* The document of job j that insert_one is awaited for.
JobDoc(j) == CHOOSE d \in inserts : d.id = job[j].doc

\* The exception of insert_one is swallowed and the handler goes on.
TempRegisterSwallow(j, res) ==
    /\ job[j].pc = "register"
    /\ inserts' = inserts \ {JobDoc(j)}
    /\ files_col' = IF res = "ok" THEN files_col \cup {JobDoc(j)} ELSE files_col
    /\ job' = [job EXCEPT ![j] =
          [@ EXCEPT !.pc = "work", !.doc = 0, !.registered = (res = "ok")]]
    /\ UNCHANGED <<orchestration, tasks, M3U8_TASKS>>
    /\ UNCHANGED helpers
    /\ UNCHANGED <<clock, disk, sweep>>

\* register_temp_path returns, or insert_one raises and ends the handler.
TempRegister(j, res) ==
    /\ job[j].pc = "register"
    /\ inserts' = inserts \ {JobDoc(j)}
    /\ files_col' = IF res = "ok" THEN files_col \cup {JobDoc(j)} ELSE files_col
    /\ job' = [job EXCEPT ![j] =
          IF res = "ok" THEN [@ EXCEPT !.pc = "work", !.doc = 0, !.registered = TRUE]
          ELSE JobEnded(@, "exception")]
    /\ UNCHANGED <<orchestration, tasks, M3U8_TASKS>>
    /\ UNCHANGED helpers
    /\ UNCHANGED <<clock, disk, sweep>>

\* Output is written under temp_root: a chunk of a download, the files of
\* an archive, the audio track.
JobWrite(j) ==
    /\ job[j].pc = "work"
    /\ job' = [job EXCEPT ![j].wrote = TRUE]
    /\ UNCHANGED <<orchestration, tasks, M3U8_TASKS>>
    /\ UNCHANGED helpers
    /\ UNCHANGED <<clock, files_col, inserts, disk, sweep>>

\* offer_m3u8_quality_menu: the batch leaves a quality-select task that
\* names its temp_root.
JobMenu(j) ==
    /\ job[j].pc = "work" /\ job[j].kind = "batch"
    /\ Cardinality(M3U8_TASKS) < MaxEntries
    /\ M3U8_TASKS' = M3U8_TASKS \cup
          {[id |-> FreshM3u8Id, user_id |-> job[j].user, temp_root |-> job[j].path]}
    /\ UNCHANGED <<orchestration, tasks>>
    /\ UNCHANGED store
    /\ UNCHANGED helpers

\* The messages a handler can end with once its directory is registered.
JobOutcomes(kind) ==
    IF kind = "txt" THEN {"download_failed", "no_links", "links_found"}
    ELSE IF kind = "unzip"
    THEN {"download_failed", "cancelled", "needs_password", "extract_error", "success"}
    ELSE IF kind = "audio" THEN {"download_failed", "ffmpeg_error", "success"}
    ELSE {"complete"}

\* The handler returns; a successful extraction leaves a task entry whose
\* base_dir is under temp_root.
JobEnd(j, o) ==
    /\ job[j].pc = "work"
    /\ o \in JobOutcomes(job[j].kind)
    /\ IF job[j].kind = "unzip" /\ o = "success"
       THEN /\ UsedIds # EntryIds
            /\ tasks' = tasks \cup
                  {[id |-> FreshId, user_id |-> job[j].user, base_dir |-> job[j].path]}
       ELSE UNCHANGED tasks
    /\ job' = [job EXCEPT ![j] = JobEnded(@, o)]
    /\ UNCHANGED <<orchestration, M3U8_TASKS>>
    /\ UNCHANGED helpers
    /\ UNCHANGED <<clock, files_col, inserts, disk, sweep>>

\* "m3q|<id>|<index>": handle_m3u8_quality_choice ends and drops the task.
M3u8TaskDone(id) ==
    /\ id \in {e.id : e \in M3U8_TASKS}
    /\ M3U8_TASKS' = {e \in M3U8_TASKS : e.id # id}
    /\ UNCHANGED <<orchestration, tasks>>
    /\ UNCHANGED store
    /\ UNCHANGED helpers

\* ------------------------------------------- database.py: users
\* users.col is the collection by _id: <<>> or <<document>>, of which the
\* model keeps stats.last_reset; users.today is datetime.date.today();
\* users.get holds the calls of get_or_create_user: where each stands, the
\* user id, the day it read, and what it returned or raised.
Callers == 1..MaxCallers
NoGet == [pc |-> "idle", user_id |-> 0, today |-> 0, out |-> "none"]
NoUsers == [col |-> [u \in Users |-> <<>>], today |-> 0,
            get |-> [c \in Callers |-> NoGet]]

\* The document that get_or_create_user inserts.
NewUser(today) == [last_reset |-> today]

\* users_col.insert_one(user): _id is the unique key of the collection.
insert_one(col, id, doc) ==
    IF col[id] = <<>>
    THEN [col |-> [col EXCEPT ![id] = <<doc>>], raised |-> "none"]
    ELSE [col |-> col, raised |-> "DuplicateKeyError"]

\* The local date changes.
UserDay ==
    /\ users.today < MaxDays
    /\ users' = [users EXCEPT !.today = @ + 1]
    /\ UNCHANGED handlers
    /\ UNCHANGED store
    /\ UNCHANGED <<call, progress>>

\* get_or_create_user up to its second await: find_one has answered.
UserFindOne(c, id) ==
    /\ users.get[c].pc \in {"idle", "end"}
    /\ LET user == users.col[id]
           stale == user # <<>> /\ user[1].last_reset # users.today
       IN  users' = [users EXCEPT !.get[c] =
              [pc |-> IF user = <<>> THEN "insert_one"
                      ELSE IF stale THEN "update_one" ELSE "end",
               user_id |-> id, today |-> users.today,
               out |-> IF user = <<>> \/ stale THEN "none" ELSE "user"]]
    /\ UNCHANGED handlers
    /\ UNCHANGED store
    /\ UNCHANGED <<call, progress>>

\* await users_col.insert_one(user), then return user.
UserInsertOne(c) ==
    /\ users.get[c].pc = "insert_one"
    /\ LET g == users.get[c]
           res == insert_one(users.col, g.user_id, NewUser(g.today))
       IN  users' = [users EXCEPT !.col = res.col,
                                  !.get[c].pc = "end",
                                  !.get[c].out = IF res.raised = "none" THEN "user"
                                                 ELSE res.raised]
    /\ UNCHANGED handlers
    /\ UNCHANGED store
    /\ UNCHANGED <<call, progress>>

\* await users_col.update_one(...): the daily counters are reset.
UserUpdateOne(c) ==
    /\ users.get[c].pc = "update_one"
    /\ LET g == users.get[c]
       IN  users' = [users EXCEPT !.col[g.user_id] = <<NewUser(g.today)>>,
                                  !.get[c].pc = "end",
                                  !.get[c].out = "user"]
    /\ UNCHANGED handlers
    /\ UNCHANGED store
    /\ UNCHANGED <<call, progress>>

\* -------------------------------------------------------- Python strings
\* s[i - 1]
Char(s, i) == SubSeq(s, i, i)

\* The positions of character ch in s.
Positions(s, ch) == {i \in 1..Len(s) : Char(s, i) = ch}

Least(S) == CHOOSE x \in S : \A y \in S : x <= y
Greatest(S) == CHOOSE x \in S : \A y \in S : x >= y

\* sub in s
Contains(s, sub) ==
    \E i \in 0..(Len(s) - Len(sub)) : SubSeq(s, i + 1, i + Len(sub)) = sub

\* s.endswith(suffix)
EndsWith(s, suffix) ==
    Len(suffix) <= Len(s) /\ SubSeq(s, Len(s) - Len(suffix) + 1, Len(s)) = suffix

\* s.split(ch, 1)[0]
SplitFirst(s, ch) ==
    IF Positions(s, ch) = {} THEN s ELSE SubSeq(s, 1, Least(Positions(s, ch)) - 1)

\* s.rsplit(ch, 1)[-1]
RSplitLast(s, ch) ==
    IF Positions(s, ch) = {} THEN s
    ELSE SubSeq(s, Greatest(Positions(s, ch)) + 1, Len(s))

\* s.lower()
Uppercase == "ABCDEFGHIJKLMNOPQRSTUVWXYZ"
Lowercase == "abcdefghijklmnopqrstuvwxyz"
LowerChar(c) ==
    IF Positions(Uppercase, c) = {} THEN c
    ELSE Char(Lowercase, Least(Positions(Uppercase, c)))
RECURSIVE Lower(_)
Lower(s) == IF s = "" THEN "" ELSE LowerChar(Head(s)) \o Lower(Tail(s))

\* s.strip(chars): the characters of chars are removed from both ends.
Whitespace == " \t\n"
StripChars(s, chars) ==
    LET keep == {i \in 1..Len(s) : Positions(chars, Char(s, i)) = {}}
    IN  IF keep = {} THEN "" ELSE SubSeq(s, Least(keep), Greatest(keep))

\* ----------------------------------------- utils/link_parser.py: classify
VIDEO_EXT == {".mp4", ".mkv", ".mov", ".avi", ".webm", ".ts"}
ARCHIVE_EXT ==
    {".zip", ".rar", ".7z", ".tar", ".gz", ".tgz", ".tar.gz", ".tar.bz2", ".tbz2",
     ".bz2", ".xz"}
AUDIO_EXT == {".mp3", ".m4a", ".aac", ".ogg", ".opus", ".flac", ".wav"}
APK_EXT == {".apk", ".xapk", ".apks"}
FILE_EXT == VIDEO_EXT \cup ARCHIVE_EXT \cup AUDIO_EXT \cup APK_EXT

\* The query and the fragment are kept.
UrlBaseWhole(u) == u

\* u.split("?", 1)[0].split("#", 1)[0]
UrlBase(u) == SplitFirst(SplitFirst(u, "?"), "#")

classify_link(url) ==
    LET u == StripChars(url, Whitespace)
        u_low == Lower(u)
        base == UrlBase(u_low)
    IN  IF Contains(u_low, "drive.google.com") THEN "gdrive"
        ELSE IF Contains(u_low, "t.me/") \/ Contains(u_low, "telegram.me/")
        THEN "telegram"
        ELSE IF EndsWith(base, ".m3u8") THEN "m3u8"
        ELSE IF \E ext \in FILE_EXT : EndsWith(base, ext) THEN "direct"
        ELSE "unknown"

\* A URL by its parts: the query and the fragment come with their "?" and
\* "#", and are empty when the URL has none.
UrlParts ==
    [scheme : {"https://", "HTTP://"},
     host : {"example.com", "drive.google.com", "t.me", "telegram.me",
             "cricket.me", "files.zip"},
     path : {"", "/", "/v.mp4", "/V.MP4", "/a.m3u8", "/page", "/x.tar.gz", "/v.mp4/"},
     query : {"", "?x=1", "?u=drive.google.com", "?f=a.mp4"},
     fragment : {"", "#t.me/", "#a?b.zip"}]

UrlText(r) == r.scheme \o r.host \o r.path \o r.query \o r.fragment

CallClassify(r) ==
    /\ call = NoCall
    /\ call' = [fn |-> "classify_link", in |-> r, url |-> UrlText(r),
                out |-> classify_link(UrlText(r))]
    /\ UNCHANGED handlers
    /\ UNCHANGED store
    /\ UNCHANGED <<progress, users>>

\* ------------------------------------- utils/link_parser.py: find_links
\* \s
IsSpace(c) == Positions(Whitespace, c) # {}

\* The length of "http://" or "https://" at position i of text, case
\* ignored, when a character that is no whitespace follows it; otherwise 0.
SchemeAt(text, i) ==
    LET n == IF i + 7 <= Len(text) /\ Lower(SubSeq(text, i, i + 7)) = "https://" THEN 8
             ELSE IF i + 6 <= Len(text) /\ Lower(SubSeq(text, i, i + 6)) = "http://" THEN 7
             ELSE 0
    IN  IF n > 0 /\ i + n <= Len(text) /\ ~IsSpace(Char(text, i + n)) THEN n ELSE 0

\* The end of the run of [^\s] that holds position i.
RunEnd(text, i) ==
    LET spaces == {j \in i..Len(text) : IsSpace(Char(text, j))}
    IN  IF spaces = {} THEN Len(text) ELSE Least(spaces) - 1

\* URL_REGEX.finditer(text) from position i: the matches, left to right.
RECURSIVE Matches(_, _)
Matches(text, i) ==
    IF i > Len(text) THEN <<>>
    ELSE IF SchemeAt(text, i) > 0
    THEN <<SubSeq(text, i, RunEnd(text, i))>> \o Matches(text, RunEnd(text, i) + 1)
    ELSE Matches(text, i + 1)

\* The match is taken as it is.
CleanMatchRaw(m) == m

\* m.group(1).strip().strip(".,)")
CleanMatch(m) == StripChars(StripChars(m, Whitespace), ".,)")

find_links_in_text(text) ==
    [k \in DOMAIN Matches(text, 1) |-> CleanMatch(Matches(text, 1)[k])]

\* x in list
InList(x, list) == \E i \in DOMAIN list : list[i] = x

\* The URL is appended whether the list has it or not.
AddLinkAlways(list, url) == Append(list, url)

\* if url not in all_links[kind]: all_links[kind].append(url)
AddLink(list, url) == IF InList(url, list) THEN list ELSE Append(list, url)

\* The loop over the URLs of one file.
RECURSIVE Collect(_, _)
Collect(all_links, urls) ==
    IF urls = <<>> THEN all_links
    ELSE Collect([all_links EXCEPT ![classify_link(Head(urls))] = AddLink(@, Head(urls))],
                 Tail(urls))

\* Path(name).suffix.lower()
Suffix(name) ==
    IF Positions(name, ".") = {} THEN "" ELSE Lower("." \o RSplitLast(name, "."))

\* The loop over the files of the folder, in the order os.walk gives them.
RECURSIVE Walk(_, _)
Walk(all_links, files) ==
    IF files = <<>> THEN all_links
    ELSE Walk(IF Suffix(Head(files).name) \in {".txt", ".m3u", ".m3u8"}
                 /\ Head(files).readable
              THEN Collect(all_links, find_links_in_text(Head(files).text))
              ELSE all_links,
              Tail(files))

extract_links_from_folder(files) ==
    Walk([kind \in {"direct", "m3u8", "gdrive", "telegram", "unknown"} |-> <<>>], files)

\* Words of a text, and the URL find_links_in_text is to find in each.
Words ==
    {"http://a/1.mp4", "http://a/1.mp4,", "(HTTP://b/x).", "http://a/2.m3u8", "see",
     "http://"}
WordUrl(w) ==
    IF w = "http://a/1.mp4," THEN "http://a/1.mp4"
    ELSE IF w = "(HTTP://b/x)." THEN "HTTP://b/x"
    ELSE IF w \in {"see", "http://"} THEN ""
    ELSE w

\* All lists of at most n words.
RECURSIVE WordLists(_)
WordLists(n) ==
    IF n = 0 THEN {<<>>}
    ELSE WordLists(n - 1) \cup
         {Append(s, w) : s \in {x \in WordLists(n - 1) : Len(x) = n - 1}, w \in Words}

\* The text of a list of words: the words with a blank or a line break
\* between them.
RECURSIVE Join(_)
Join(words) ==
    IF words = <<>> THEN ""
    ELSE IF Len(words) = 1 THEN words[1]
    ELSE words[1] \o (IF Len(words) = 2 THEN " " ELSE "\n") \o Join(Tail(words))

\* The files of an extracted archive: their names, whether they can be
\* read, and the words of their text.
FileWords ==
    {<<"http://a/1.mp4", "http://a/1.mp4,">>, <<"http://a/2.m3u8", "http://a/1.mp4">>,
     <<"(HTTP://b/x).", "see", "http://a/2.m3u8">>}
Files == [name : {"links.TXT", "list.m3u8", "cover.jpg"}, readable : BOOLEAN,
          words : FileWords]

RECURSIVE Folders(_)
Folders(n) ==
    IF n = 0 THEN {<<>>}
    ELSE Folders(n - 1) \cup
         {Append(s, f) : s \in {x \in Folders(n - 1) : Len(x) = n - 1}, f \in Files}

\* The file as extract_links_from_folder reads it.
AsRead(f) == [name |-> f.name, readable |-> f.readable, text |-> Join(f.words)]

CallExtractLinks(folder) ==
    /\ call = NoCall
    /\ call' = [fn |-> "extract_links_from_folder", in |-> folder,
                out |-> extract_links_from_folder([i \in DOMAIN folder |-> AsRead(folder[i])])]
    /\ UNCHANGED handlers
    /\ UNCHANGED store
    /\ UNCHANGED <<progress, users>>

\* process_links_message stores the links of an inbound text in
\* LINK_SESSIONS, and "Download all" fetches its direct-fetch candidates:
\* links is the stored list, fetched the list the direct loop runs over.
LinksMessage(content) ==
    LET links == find_links_in_text(content)
        kinds == [i \in DOMAIN links |-> classify_link(links[i])]
        picked == candidate_direct(kinds)
    IN  [stored |-> links # <<>>, links |-> links,
         fetched |-> [i \in DOMAIN picked |-> links[picked[i]]]]

CallLinksMessage(words) ==
    /\ call = NoCall
    /\ call' = [fn |-> "process_links_message", in |-> words,
                out |-> LinksMessage(Join(words))]
    /\ UNCHANGED handlers
    /\ UNCHANGED store
    /\ UNCHANGED <<progress, users>>

\* ------------------------------------------- utils/http_downloader.py
\* The first position from i on that holds no whitespace: \s* is skipped.
SkipSpace(s, i) ==
    LET rest == {j \in i..Len(s) : ~IsSpace(Char(s, j))}
    IN  IF rest = {} THEN Len(s) + 1 ELSE Least(rest)

\* The end of the run of characters from i on that are not in stops, which
\* is i - 1 when the run is empty.
RunUntil(s, i, stops) ==
    LET hits == {j \in i..Len(s) : Positions(stops, Char(s, j)) # {}}
    IN  IF hits = {} THEN Len(s) ELSE Least(hits) - 1

\* urllib.parse.unquote, for the escapes of a blank and of a dot.
RECURSIVE unquote(_)
unquote(s) ==
    IF s = "" THEN ""
    ELSE IF Len(s) >= 3 /\ SubSeq(s, 1, 3) = "%20" THEN " " \o unquote(SubSeq(s, 4, Len(s)))
    ELSE IF Len(s) >= 3 /\ Lower(SubSeq(s, 1, 3)) = "%2e"
    THEN "." \o unquote(SubSeq(s, 4, Len(s)))
    ELSE Head(s) \o unquote(Tail(s))

\* filename\*\s*=\s*[^']*'[^']*'(?P<fn>[^;]+) matched at position i, case
\* ignored: the group fn as <<first, last>>, or <<>>.
ExtendedAt(cd, i) ==
    LET eq == SkipSpace(cd, i + 9)
        q1 == RunUntil(cd, eq + 1, "'") + 1
        q2 == RunUntil(cd, q1 + 1, "'") + 1
        last == RunUntil(cd, q2 + 1, ";")
    IN  IF /\ i + 8 <= Len(cd) /\ Lower(SubSeq(cd, i, i + 8)) = "filename*"
           /\ eq <= Len(cd) /\ Char(cd, eq) = "="
           /\ q1 <= Len(cd) /\ q2 <= Len(cd) /\ last > q2
        THEN <<q2 + 1, last>> ELSE <<>>

\* filename\s*=\s*"?(?P<fn>[^";]+)"? matched at position i, case ignored:
\* when nothing but whitespace stands before the closing quote, the regex
\* backs up and the group is that whitespace.
PlainAt(cd, i) ==
    LET eq == SkipSpace(cd, i + 8)
        val == SkipSpace(cd, eq + 1)
        first == IF val <= Len(cd) /\ Char(cd, val) = "\"" THEN val + 1 ELSE val
        last == RunUntil(cd, first, "\";")
    IN  IF /\ i + 7 <= Len(cd) /\ Lower(SubSeq(cd, i, i + 7)) = "filename"
           /\ eq <= Len(cd) /\ Char(cd, eq) = "="
        THEN IF last >= first THEN <<first, last>>
             ELSE IF val > eq + 1 THEN <<eq + 1, val - 1>>
             ELSE <<>>
        ELSE <<>>

\* _filename_from_cd(cd): "" stands for None.
filename_from_cd(cd) ==
    LET ext == {i \in 1..Len(cd) : ExtendedAt(cd, i) # <<>>}
        plain == {i \in 1..Len(cd) : PlainAt(cd, i) # <<>>}
        fn(m) == SubSeq(cd, m[1], m[2])
    IN  IF cd = "" THEN ""
        ELSE IF ext # {}
        THEN StripChars(StripChars(unquote(fn(ExtendedAt(cd, Least(ext)))), Whitespace), "\"")
        ELSE IF plain # {}
        THEN StripChars(StripChars(fn(PlainAt(cd, Least(plain))), Whitespace), "\"")
        ELSE ""

\* download_file, lines 57-73: the name of the file that is written.
download_file_fname(url, cd, dest_path, file_name) ==
    LET header_name == filename_from_cd(cd)
        base_from_url == RSplitLast(UrlBase(url), "/")
        basename == RSplitLast(dest_path, "/")
    IN  IF header_name # "" THEN header_name
        ELSE IF base_from_url # "" THEN base_from_url
        ELSE IF file_name # "" THEN file_name
        ELSE IF basename # "" THEN basename
        ELSE "file"

\* The Content-Disposition headers of the responses ("" when the server
\* sends none), and the name each of them gives.
Dispositions ==
    {"", "attachment", "attachment; filename=\"report.pdf\"",
     "attachment; FILENAME = plain.bin; size=3", "attachment; filename=\"\"",
     "inline; filename= \"\"", "attachment; filename*=UTF-8''na%20me%2Ebin",
     "attachment; filename=\"../../etc/cron\"", "attachment; filename=/etc/cron",
     "attachment; filename=\"sub/in.bin\""}
DispositionName(cd) ==
    IF cd = "attachment; filename=\"report.pdf\"" THEN "report.pdf"
    ELSE IF cd = "attachment; FILENAME = plain.bin; size=3" THEN "plain.bin"
    ELSE IF cd = "attachment; filename*=UTF-8''na%20me%2Ebin" THEN "na me.bin"
    ELSE IF cd = "attachment; filename=\"../../etc/cron\"" THEN "../../etc/cron"
    ELSE IF cd = "attachment; filename=/etc/cron" THEN "/etc/cron"
    ELSE IF cd = "attachment; filename=\"sub/in.bin\"" THEN "sub/in.bin"
    ELSE ""

\* The requests of download_file: the URL by its parts, the header, the
\* caller's dest_path and file_name ("" for None).
Downloads ==
    [url : [scheme : {"https://"}, host : {"example.com"},
            path : {"", "/", "/dir/v.mp4", "/dir/"}, query : {"", "?a=/b"},
            fragment : {"", "#x/y"}],
     cd : Dispositions, dest_path : {"/tmp/u/", "/tmp/u/guess"},
     file_name : {"", "fallback.bin"}]

\* os.path.dirname(path)
dirname(path) ==
    LET slashes == Positions(path, "/")
    IN  IF slashes = {} THEN ""
        ELSE IF Greatest(slashes) = 1 THEN "/"
        ELSE SubSeq(path, 1, Greatest(slashes) - 1)

\* os.path.join(a, b): an absolute b replaces a.
join(a, b) ==
    IF b # "" /\ Char(b, 1) = "/" THEN b
    ELSE IF a = "" \/ EndsWith(a, "/") THEN a \o b
    ELSE a \o "/" \o b

\* download_file, lines 50 and 73: the path that is opened for writing.
download_file_final_path(dest_path, fname) ==
    LET dest_dir == IF dirname(dest_path) = "" THEN "." ELSE dirname(dest_path)
    IN  join(dest_dir, fname)

\* The components of a path, and the components of the file the system
\* opens for it: "." and empty components dropped, ".." one level up.
RECURSIVE Components(_)
Components(path) ==
    IF Positions(path, "/") = {} THEN <<path>>
    ELSE <<SplitFirst(path, "/")>>
         \o Components(SubSeq(path, Least(Positions(path, "/")) + 1, Len(path)))
RECURSIVE Resolve(_, _)
Resolve(comps, stack) ==
    IF comps = <<>> THEN stack
    ELSE IF Head(comps) \in {"", "."} THEN Resolve(Tail(comps), stack)
    ELSE IF Head(comps) = ".."
    THEN Resolve(Tail(comps),
                 IF stack = <<>> THEN stack ELSE SubSeq(stack, 1, Len(stack) - 1))
    ELSE Resolve(Tail(comps), Append(stack, Head(comps)))

CallDownloadFile(d) ==
    /\ call = NoCall
    /\ LET fname == download_file_fname(UrlText(d.url), d.cd, d.dest_path, d.file_name)
       IN  call' = [fn |-> "download_file", in |-> d, out |-> fname,
                    final_path |-> download_file_final_path(d.dest_path, fname)]
    /\ UNCHANGED handlers
    /\ UNCHANGED store
    /\ UNCHANGED <<progress, users>>

\* ---------------------------------------------------- utils/progress.py
\* Config.PROGRESS_UPDATE_INTERVAL, in seconds.
PROGRESS_UPDATE_INTERVAL == 2
\* The seconds the clock runs, the largest total of a transfer, and the
\* transfers that report on one status message.
MaxSeconds == 4
MaxTotal == 3
MaxTransfers == 2

\* _last_update holds <<t>> for the status message or nothing; time.time()
\* is far from 0, so its first reading is no less than the interval.
\* current, total and direction are the transfer that reports on the
\* message, reported is its last report (current, total, when, whether it
\* was emitted, and when the last update and the last update with
\* current != total before it were emitted).
\* edit is what message.edit_text did in the report and raised whether the
\* report left progress_for_pyrogram as an exception; edit_failed records
\* that an edit of the running transfer failed and aborted that a report
\* ended the transfer with its exception.
NoReport == [current |-> 0, total |-> 0, now |-> 0, emitted |-> FALSE,
             last_emit |-> <<>>, last_partial |-> <<>>, edit |-> "none",
             raised |-> FALSE]
NoProgress ==
    [last_update |-> <<>>, now |-> PROGRESS_UPDATE_INTERVAL, transfers |-> 0,
     direction |-> "none", current |-> 0, total |-> 0, final |-> FALSE,
     reported |-> NoReport, last_emit |-> <<>>, last_partial |-> <<>>,
     edit_failed |-> FALSE, aborted |-> FALSE]

\* message.edit_text returns, or raises an error of pyrogram (the message
\* was deleted, is not modified, flood wait).
EditResults == {"ok", "RPCError"}

\* No handler: the exception leaves the function.
CaughtNever(exc) == FALSE
\* progress_for_pyrogram, lines 76-80: "except Exception: pass".
Caught(exc) == exc \in {"RPCError"}

\* progress_for_pyrogram, line 48: the update is not sent.
Suppressed(now, last, current, total) ==
    now - last < PROGRESS_UPDATE_INTERVAL /\ current # total

\* progress_for_pyrogram, lines 51 and 82-83.
LastUpdateAfter(p, current, total) ==
    IF current = total THEN <<>> ELSE <<p.now>>

\* progress_for_pyrogram(current, total, message, ...) in state p.
progress_for_pyrogram(p, current, total, edit) ==
    LET last == IF p.last_update = <<>> THEN 0 ELSE p.last_update[1]
        raises == edit # "ok" /\ ~Caught(edit)
        report(e) == [current |-> current, total |-> total, now |-> p.now,
                      emitted |-> e, last_emit |-> p.last_emit,
                      last_partial |-> p.last_partial,
                      edit |-> IF e THEN edit ELSE "none",
                      raised |-> e /\ raises]
    IN  IF Suppressed(p.now, last, current, total)
        THEN [p EXCEPT !.reported = report(FALSE)]
        ELSE [p EXCEPT !.last_update = IF raises THEN <<p.now>>
                                       ELSE LastUpdateAfter(p, current, total),
                       !.reported = report(TRUE),
                       !.edit_failed = @ \/ edit # "ok",
                       !.last_emit = <<p.now>>,
                       !.last_partial = IF current # total THEN <<p.now>> ELSE @]

\* time.time() moves on between two reports.
ProgressTick ==
    /\ progress.now < PROGRESS_UPDATE_INTERVAL + MaxSeconds
    /\ progress' = [progress EXCEPT !.now = @ + 1]
    /\ UNCHANGED handlers
    /\ UNCHANGED store
    /\ UNCHANGED <<call, users>>

\* A transfer begins to report on the status message: download_file or
\* client.download_media ("to my server"), then the upload ("to Telegram")
\* with the same status message.
TransferStart(total) ==
    /\ progress.transfers < MaxTransfers
    /\ progress.direction = "none"
    /\ progress' = [progress EXCEPT !.transfers = @ + 1,
                                    !.direction = IF progress.transfers = 0
                                                  THEN "to my server" ELSE "to Telegram",
                                    !.current = 0, !.total = total, !.final = FALSE,
                                    !.edit_failed = FALSE]
    /\ UNCHANGED handlers
    /\ UNCHANGED store
    /\ UNCHANGED <<call, users>>

\* An exception that leaves the reporter leaves the transfer that awaits
\* it: the transfer is over before its last byte.
AfterReport(p) ==
    IF p.reported.raised THEN [p EXCEPT !.direction = "none", !.aborted = TRUE] ELSE p

\* download_file, lines 85-95, and the progress callback of an upload: n
\* more bytes are through and the transfer reports.
TransferChunk(n, edit) ==
    /\ progress.direction # "none"
    /\ progress.current + n <= progress.total
    /\ progress' = [AfterReport(progress_for_pyrogram(progress, progress.current + n,
                                                      progress.total, edit))
                        EXCEPT !.current = progress.current + n]
    /\ UNCHANGED handlers
    /\ UNCHANGED store
    /\ UNCHANGED <<call, users>>

\* download_file, lines 97-104: the report after the last chunk.
DownloadFinal(edit) ==
    /\ progress.direction = "to my server"
    /\ progress.current = progress.total
    /\ ~progress.final
    /\ progress' = [AfterReport(progress_for_pyrogram(progress, progress.current,
                                                      progress.total, edit))
                        EXCEPT !.final = TRUE]
    /\ UNCHANGED handlers
    /\ UNCHANGED store
    /\ UNCHANGED <<call, users>>

\* The transfer is over.
TransferEnd ==
    /\ progress.direction # "none"
    /\ progress.current = progress.total
    /\ progress.direction = "to my server" => progress.final
    /\ progress' = [progress EXCEPT !.direction = "none"]
    /\ UNCHANGED handlers
    /\ UNCHANGED store
    /\ UNCHANGED <<call, users>>

\* --------------------------------------------------- utils/m3u8_tools.py
\* URLs: the manifest's own, and the absolute URIs of its sub-playlists.
ManifestUrl == 1
VariantUrls == {2, 3}

\* A sub-playlist as the m3u8 library presents it: stream_info or nothing,
\* its resolution <<w, h>> or nothing, its bandwidth <<b>> or nothing (an
\* absent attribute is None, here <<>>), and its absolute_uri.
NoStreamInfo(uri) ==
    [stream_info |-> FALSE, resolution |-> <<>>, bandwidth |-> <<>>,
     absolute_uri |-> uri]
SubPlaylists ==
    {NoStreamInfo(uri) : uri \in VariantUrls} \cup
    [stream_info : {TRUE}, resolution : {<<>>, <<1280, 720>>},
     bandwidth : {<<>>, <<0>>, <<999>>, <<2500>>}, absolute_uri : VariantUrls]

\* All lists of at most n sub-playlists.
RECURSIVE PlaylistLists(_)
PlaylistLists(n) ==
    IF n = 0 THEN {<<>>}
    ELSE PlaylistLists(n - 1) \cup
         {Append(s, pl) : s \in {x \in PlaylistLists(n - 1) : Len(x) = n - 1},
                          pl \in SubPlaylists}

\* A fetched and parsed manifest: playlist.playlists and the URL it came from.
Manifests == [url : {ManifestUrl}, playlists : PlaylistLists(MaxVariants)]

\* A formatted label: f"{n}p", f"{n}kbps", "Variant", "Auto".
Label(unit, n) == [unit |-> unit, n |-> n]

\* Python's truth value of an optional number: None and 0 are false.
Truthy(x) == x # <<>> /\ x[1] # 0

\* The bandwidth is looked at before the resolution.
VariantNameBandwidthFirst(pl) ==
    IF pl.stream_info /\ Truthy(pl.bandwidth)
    THEN Label("kbps", pl.bandwidth[1] \div 1000)
    ELSE IF pl.stream_info /\ pl.resolution # <<>>
    THEN Label("p", pl.resolution[2])
    ELSE Label("Variant", 0)

\* The name of a sub-playlist: "Variant" unless stream_info has a resolution
\* or, failing that, a bandwidth that is not zero.
VariantName(pl) ==
    IF pl.stream_info /\ pl.resolution # <<>>
    THEN Label("p", pl.resolution[2])
    ELSE IF pl.stream_info /\ Truthy(pl.bandwidth)
    THEN Label("kbps", pl.bandwidth[1] \div 1000)
    ELSE Label("Variant", 0)

get_m3u8_variants(m) ==
    IF m.playlists # <<>>
    THEN [i \in DOMAIN m.playlists |->
             [name |-> VariantName(m.playlists[i]),
              url |-> m.playlists[i].absolute_uri]]
    ELSE <<[name |-> Label("Auto", 0), url |-> m.url]>>

CallVariants(m) ==
    /\ call = NoCall
    /\ call' = [fn |-> "get_m3u8_variants", in |-> m, out |-> get_m3u8_variants(m)]
    /\ UNCHANGED handlers
    /\ UNCHANGED store
    /\ UNCHANGED <<progress, users>>

\* --------------------------------------------- offer_m3u8_quality_menu
\* The ids of quality-select tasks that the table or a handler refers to:
\* uuid4 gives a new menu none of them.
UsedM3u8Ids ==
    {e.id : e \in M3U8_TASKS} \cup
    {coro[t].task_id : t \in {x \in Tasks : coro[x].kind = "m3q"}}
MenuId == CHOOSE i \in M3u8Ids : i \notin UsedM3u8Ids

\* The manifest is resolved and the task is stored with its variants; the
\* buttons of the menu carry the task id and the index of a variant.
MenuOffered(u, m) ==
    /\ Cardinality(M3U8_TASKS) < MaxEntries
    /\ UsedM3u8Ids # M3u8Ids
    /\ LET found == get_m3u8_variants(m)
           variants == IF found = <<>>
                       THEN <<[name |-> Label("Auto", 0), url |-> m.url]>>
                       ELSE found
       IN  M3U8_TASKS' = M3U8_TASKS \cup
               {[id |-> MenuId, user_id |-> u, variants |-> variants]}
    /\ UNCHANGED <<user_locks, user_cancelled, tasks, coro>>
    /\ UNCHANGED store
    /\ UNCHANGED helpers

\* ------------------------------------------- handle_m3u8_quality_choice
\* M3U8_TASKS.get(task_id)
M3u8Info(id) == CHOOSE e \in M3U8_TASKS : e.id = id

\* M3U8_TASKS.pop(task_id, None)
M3u8Pop(id) == {e \in M3U8_TASKS : e.id # id}

\* The indexes a callback can carry: those of the buttons and one beyond.
Indexes == 0..MaxVariants

\* The handler of a choice that has returned: the field started is history,
\* download_m3u8_stream has been called in this invocation.
M3qEnded(c, o) == [c EXCEPT !.pc = "end", !.outcome = o]

\* The callback "m3q|<id>|<index>" of user u, up to the first await: the
\* task is looked up (Python lists are indexed from 0).
M3qChoice(t, u, id, index) ==
    /\ CanStart(t)
    /\ LET c == [kind |-> "m3q", pc |-> "notify", user |-> u, outcome |-> "none",
                 stopped |-> FALSE, task_id |-> id, index |-> index,
                 url |-> 0, started |-> FALSE]
       IN  coro' = [coro EXCEPT ![t] =
               IF id \notin {e.id : e \in M3U8_TASKS} THEN M3qEnded(c, "expired")
               ELSE IF u # M3u8Info(id).user_id THEN M3qEnded(c, "not_yours")
               ELSE IF index < 0 \/ index >= Len(M3u8Info(id).variants)
               THEN M3qEnded(c, "invalid")
               ELSE [c EXCEPT !.url = M3u8Info(id).variants[index + 1].url]]
    /\ UNCHANGED <<user_locks, user_cancelled, tasks, M3U8_TASKS>>
    /\ UNCHANGED store
    /\ UNCHANGED helpers

\* The callback is answered and the menu edited: download_m3u8_stream is
\* called for the chosen variant.
M3qStart(t) ==
    /\ coro[t].kind = "m3q" /\ coro[t].pc = "notify"
    /\ coro' = [coro EXCEPT ![t] = [@ EXCEPT !.pc = "download", !.started = TRUE]]
    /\ UNCHANGED <<user_locks, user_cancelled, tasks, M3U8_TASKS>>
    /\ UNCHANGED store
    /\ UNCHANGED helpers

\* ffmpeg ends: the file is there, or the failure is to be shown.
M3qDownloadDone(t, res) ==
    /\ coro[t].kind = "m3q" /\ coro[t].pc = "download"
    /\ coro' = [coro EXCEPT ![t].pc = IF res = "ok" THEN "upload" ELSE "report_failure"]
    /\ UNCHANGED <<user_locks, user_cancelled, tasks, M3U8_TASKS>>
    /\ UNCHANGED store
    /\ UNCHANGED helpers

\* The failure has been shown: the task is dropped.
M3qFailed(t) ==
    /\ coro[t].kind = "m3q" /\ coro[t].pc = "report_failure"
    /\ M3U8_TASKS' = M3u8Pop(coro[t].task_id)
    /\ coro' = [coro EXCEPT ![t] = M3qEnded(@, "download_failed")]
    /\ UNCHANGED <<user_locks, user_cancelled, tasks>>
    /\ UNCHANGED store
    /\ UNCHANGED helpers

\* The thumbnail, the edit and send_video are done (deleting the menu and
\* logging cannot fail the handler): the task is dropped.
M3qDelivered(t) ==
    /\ coro[t].kind = "m3q" /\ coro[t].pc = "upload"
    /\ M3U8_TASKS' = M3u8Pop(coro[t].task_id)
    /\ coro' = [coro EXCEPT ![t] = M3qEnded(@, "success")]
    /\ UNCHANGED <<user_locks, user_cancelled, tasks>>
    /\ UNCHANGED store
    /\ UNCHANGED helpers

\* An await outside every try block raises: answering the callback, an edit
\* of the menu message, the thumbnail, send_video.
M3qRaise(t) ==
    /\ coro[t].kind = "m3q" /\ coro[t].pc \in {"notify", "report_failure", "upload"}
    /\ coro' = [coro EXCEPT ![t] = M3qEnded(@, "exception")]
    /\ UNCHANGED <<user_locks, user_cancelled, tasks, M3U8_TASKS>>
    /\ UNCHANGED store
    /\ UNCHANGED helpers

\* ---------------------------------------------------------- specification
Init ==
    /\ user_locks = [u \in Users |-> NewLock]
    /\ user_cancelled = [u \in Users |-> FALSE]
    /\ tasks = {}
    /\ M3U8_TASKS = {}
    /\ coro = [t \in Tasks |-> Idle]
    /\ clock = 0
    /\ files_col = {}
    /\ inserts = {}
    /\ disk = {}
    /\ sweep = NoSweep
    /\ job = [j \in Jobs |-> NoJob]
    /\ call = NoCall
    /\ progress = NoProgress
    /\ users = NoUsers

Next ==
    \/ \E u \in Users : cancel_cmd(u)
    \/ \E t \in Tasks, u \in Users, pw \in BOOLEAN : UnzipBegin(t, u, pw)
    \/ \E t \in Tasks, res \in {"ok", "raise", "missing"} : UnzipDownload(t, res)
    \/ \E t \in Tasks, enc \in BOOLEAN : UnzipCheckpoint1(t, enc)
    \/ \E t \in Tasks, res \in {"ok", "raise", "wrong_password"} : UnzipExtract(t, res)
    \/ \E t \in Tasks : UnzipFinish(t)
    \/ \E t \in Tasks : UnzipRaise(t)
    \/ \E t \in Tasks, u \in Users, video \in BOOLEAN : AudioBegin(t, u, video)
    \/ \E t \in Tasks : AudioAcquire(t)
    \/ \E t \in Tasks, res \in {"ok", "raise", "missing"} : AudioDownload(t, res)
    \/ \E t \in Tasks, res \in {"ok", "raise"} : AudioExtract(t, res)
    \/ \E t \in Tasks : AudioUpload(t)
    \/ \E t \in Tasks : AudioRaise(t)
    \/ \E t \in Tasks : LockWake(t)
    \/ \E id \in EntryIds : UnzipSessionCancel(id)

Spec == Init /\ [][Next]_vars

\* One user's batch download and that user's cancel command.
BatchSlots == {1}
UnzipSlots == {2}
BatchUsers == {1}

BatchSteps(t) ==
    \/ \E pin \in BOOLEAN : BatchLoop(t, pin)
    \/ \E res \in {"ok", "fail"} : BatchFetchDone(t, res)
    \/ \E res \in {"variants", "parse_failed"} : BatchMenuDone(t, res)
    \/ BatchReport(t)
    \/ BatchRaise(t)

NextBatch ==
    \/ \E u \in BatchUsers : cancel_cmd(u)
    \/ \E t \in BatchSlots, u \in BatchUsers, links \in BatchTexts : BatchBegin(t, u, links)
    \/ \E t \in BatchSlots : BatchSteps(t)

SpecBatch == Init /\ [][NextBatch]_vars

\* The same with an archive extraction of that user running beside it.
NextRace ==
    \/ \E u \in BatchUsers : cancel_cmd(u)
    \/ \E t \in BatchSlots, u \in BatchUsers, links \in RaceTexts : BatchBegin(t, u, links)
    \/ \E t \in BatchSlots : BatchSteps(t)
    \/ \E t \in UnzipSlots, u \in BatchUsers, pw \in BOOLEAN : UnzipBegin(t, u, pw)
    \/ \E t \in UnzipSlots, res \in {"ok", "raise", "missing"} : UnzipDownload(t, res)
    \/ \E t \in UnzipSlots, enc \in BOOLEAN : UnzipCheckpoint1(t, enc)
    \/ \E t \in UnzipSlots, res \in {"ok", "raise"} : UnzipExtract(t, res)
    \/ \E t \in UnzipSlots : UnzipFinish(t)
    \/ \E t \in UnzipSlots : UnzipRaise(t)
    \/ \E id \in EntryIds : UnzipSessionCancel(id)

SpecRace == Init /\ [][NextRace]_vars

\* The registry by its interface: any caller, any path, the cleanup worker.
NextRegistry ==
    \/ Tick
    \/ \E u \in BatchUsers, p \in Paths, ttl \in Ttls : RegisterCall(u, p, ttl)
    \/ \E d \in inserts : RegisterDone(d)
    \/ SweepBegin
    \/ \E seen \in SUBSET files_col : SweepScan(seen)
    \/ SweepDelete
    \/ SweepUnlink

SpecRegistry == Init /\ [][NextRegistry]_vars

\* The handlers' temp directories beside the cleanup worker.
NextSweep ==
    \/ Tick
    \/ \E j \in Jobs, u \in BatchUsers, kind \in {"text", "batch"} : TempAbort(j, u, kind)
    \/ \E j \in Jobs, u \in BatchUsers, kind \in JobKinds, ttl \in Ttls :
          TempBegin(j, u, kind, ttl)
    \/ \E j \in Jobs, res \in {"ok", "raise"} : TempRegister(j, res)
    \/ \E j \in Jobs : JobWrite(j)
    \/ \E j \in Jobs : JobMenu(j)
    \/ \E j \in Jobs : \E o \in JobOutcomes(job[j].kind) : JobEnd(j, o)
    \/ \E id \in EntryIds : UnzipSessionCancel(id)
    \/ \E id \in M3u8Ids : M3u8TaskDone(id)
    \/ SweepBegin
    \/ \E seen \in SUBSET files_col : SweepScan(seen)
    \/ SweepDelete
    \/ SweepUnlink

SpecSweep == Init /\ [][NextSweep]_vars

\* Quality menus and the choices made on them.
MenuManifests == {m \in Manifests : Len(m.playlists) \in {0, MaxVariants}
                                    /\ \A i \in DOMAIN m.playlists :
                                          /\ m.playlists[i].resolution # <<>>
                                          /\ m.playlists[i].bandwidth = <<2500>>
                                          /\ m.playlists[i].absolute_uri = 1 + i}

NextM3u8 ==
    \/ \E u \in Users, m \in MenuManifests : MenuOffered(u, m)
    \/ \E t \in Tasks, u \in Users, id \in M3u8Ids, index \in Indexes :
          M3qChoice(t, u, id, index)
    \/ \E t \in Tasks : M3qStart(t)
    \/ \E t \in Tasks, res \in {"ok", "fail"} : M3qDownloadDone(t, res)
    \/ \E t \in Tasks : M3qFailed(t)
    \/ \E t \in Tasks : M3qDelivered(t)
    \/ \E t \in Tasks : M3qRaise(t)

SpecM3u8 == Init /\ [][NextM3u8]_vars

\* The helper functions, each called with every input: a behaviour is one
\* call.
NextCalls ==
    \/ \E m \in Manifests : CallVariants(m)
    \/ \E r \in UrlParts : CallClassify(r)
    \/ \E folder \in Folders(MaxFiles) : CallExtractLinks(folder)
    \/ \E words \in WordLists(MaxWords) : CallLinksMessage(words)
    \/ \E d \in Downloads : CallDownloadFile(d)

SpecCalls == Init /\ [][NextCalls]_vars

\* The reports of the transfers on one status message.
NextProgress ==
    \/ ProgressTick
    \/ \E total \in 1..MaxTotal : TransferStart(total)
    \/ \E n \in 1..MaxTotal, edit \in EditResults : TransferChunk(n, edit)
    \/ \E edit \in EditResults : DownloadFinal(edit)
    \/ TransferEnd
SpecProgress == Init /\ [][NextProgress]_vars

\* The calls of get_or_create_user, as the handlers of concurrent updates
\* make them.
NextUsers ==
    \/ UserDay
    \/ \E c \in Callers, id \in Users : UserFindOne(c, id)
    \/ \E c \in Callers : UserInsertOne(c)
    \/ \E c \in Callers : UserUpdateOne(c)
SpecUsers == Init /\ [][NextUsers]_vars

\* Extractions and the buttons of their summaries, pressed by any user.
NextOwner ==
    \/ \E u \in Users : cancel_cmd(u)
    \/ \E t \in Tasks, u \in Users, pw \in BOOLEAN : UnzipBegin(t, u, pw)
    \/ \E t \in Tasks : UnzipDownload(t, "ok")
    \/ \E t \in Tasks : UnzipCheckpoint1(t, FALSE)
    \/ \E t \in Tasks, res \in {"ok", "raise"} : UnzipExtract(t, res)
    \/ \E t \in Tasks : UnzipFinish(t)
    \/ \E t \in Tasks, u \in Users, id \in EntryIds : SendAllBegin(t, u, id)
    \/ \E t \in Tasks : SendAllLoop(t)
    \/ \E t \in Tasks, u \in Users, id \in EntryIds, index \in 0..MaxSent :
          SendOne(t, u, id, index)
    \/ \E t \in Tasks, u \in Users, id \in EntryIds : CallbackUcancel(t, u, id)
SpecOwner == Init /\ [][NextOwner]_vars

\* ================================================================ claims
\* A handler is between its first and its last statement.
Alive(t) == coro[t].pc \notin {"idle", "end"}

\* A pipeline run is in progress in slot t: an extraction or an audio
\* extraction inside its lock, or a batch download between its setup and
\* its report.
InPipeline(t) == Holds(t) \/ (coro[t].kind = "batch" /\ Alive(t))

\* No two coroutines of one user are inside "async with lock" together.
HeldByOne ==
    \A a, b \in Tasks :
        (a # b /\ Holds(a) /\ Holds(b)) => coro[a].user # coro[b].user

\* C1: single-flight. At no moment do two tasks of one user hold the user's
\* slot, and of two attempts made before the first of them ends only one is
\* granted: no attempt that had to wait for a holder to end is granted.
C1_SingleFlight ==
    /\ [](HeldByOne)
    /\ [][\A t \in Tasks : coro[t].pc = "wait_lock" => coro'[t].pc = "wait_lock"]_vars

\* C2: per-user serialization covers every pipeline. No two pipeline runs of
\* one user are in progress at the same time.
C2_OnePipelinePerUser ==
    \A a, b \in Tasks :
        (a # b /\ InPipeline(a) /\ InPipeline(b)) => coro[a].user # coro[b].user

\* C3: no queueing. No request ever waits on the slot to run after the holder
\* has released it.
C3_NoQueueing == \A t \in Tasks : coro[t].pc # "wait_lock"

\* C4: the slot is released on every exit path. A user's slot is held exactly
\* while a granted task of that user is running: every way a granted task
\* ends frees the slot, and the slot is never held with no task running.
C4_SlotReleasedOnExit ==
    \A u \in Users : Locked(u) <=> (\E t \in Tasks : Holds(t) /\ coro[t].user = u)

\* A task that held the slot has ended on an error path and another request
\* of the same user holds the slot now.
C4_Witness ==
    \E a, b \in Tasks :
        /\ coro[a].pc = "end" /\ coro[a].outcome = "extract_error"
        /\ Holds(b) /\ coro[b].user = coro[a].user

\* C5: end clears the cancellation flag. In every step in which a running
\* pipeline of a user ends, that user's cancellation flag is clear afterwards.
C5_EndClearsFlag ==
    [][\A t \in Tasks :
          (InPipeline(t) /\ coro'[t].pc = "end") => ~user_cancelled'[coro[t].user]]_vars

\* The items a batch has started so far.
Started(c) == c.log

\* C6: cooperative cancellation in a batch. Once the user has asked to cancel
\* during a batch download, that batch starts no further candidate.
C6_NoStartAfterCancel ==
    [][\A t \in Tasks :
          (/\ coro[t].kind = "batch" /\ Alive(t) /\ coro[t].asked
           /\ coro'[t].kind = "batch" /\ coro'[t].pc # "end")
          => Started(coro'[t]) = Started(coro[t])]_vars

\* C7: a pipeline stopped by the cancellation flag ends with an explicit
\* cancelled outcome, distinct from success and from error.
C7_ExplicitCancelled ==
    \A t \in Tasks :
        (coro[t].pc = "end" /\ coro[t].stopped) => coro[t].outcome = "cancelled"

\* The direct-fetch candidates of a batch: direct, unknown and cloud-drive.
FetchCategories == {"direct", "unknown", "gdrive"}

RECURSIVE CountIn(_, _, _)
CountIn(log, links, cats) ==
    IF log = <<>> THEN 0
    ELSE (IF Category(links[Head(log)]) \in cats THEN 1 ELSE 0)
         + CountIn(Tail(log), links, cats)

NumFetchCandidates(links) == Len(candidate_direct(links)) + Len(gdrive_links(links))

\* C8: batch conservation. Every direct-fetch candidate that has been
\* processed has raised exactly one of ok and fail by one, and a batch that
\* reaches its report without stopping at a cancellation checkpoint has
\* ok + fail equal to the number of direct, unknown and cloud-drive links.
C8_BatchConservation ==
    \A t \in Tasks :
        (coro[t].kind = "batch" /\ Alive(t)) =>
            LET c == coro[t]
                inflight == IF c.pc = "fetch" THEN 1 ELSE 0
            IN  /\ c.ok + c.fail + inflight = CountIn(c.log, c.links, FetchCategories)
                /\ (c.pc = "report" /\ ~c.stopped) =>
                       c.ok + c.fail = NumFetchCandidates(c.links)

\* A batch of three candidates, one of them a cloud-drive link that cannot be
\* rewritten, has reached its report with successes and failures.
C8_Witness ==
    \E t \in Tasks :
        /\ coro[t].kind = "batch" /\ coro[t].pc = "report" /\ ~coro[t].stopped
        /\ \E i \in DOMAIN coro[t].links : coro[t].links[i] = "gdrive_norewrite"
        /\ coro[t].ok >= 1 /\ coro[t].fail >= 2

\* Every supported link of a batch, by its position in the text.
Supported(links) ==
    {i \in DOMAIN links : Category(links[i]) \in FetchCategories \cup {"m3u8"}}

NoDuplicates(log) == \A i, j \in DOMAIN log : log[i] = log[j] => i = j

\* C9: partial-failure tolerance with try-once. No item of a batch is
\* attempted twice, and a batch that reaches its report without stopping at a
\* cancellation checkpoint has attempted every item, whatever failed before.
C9_PartialFailureTryOnce ==
    \A t \in Tasks :
        (coro[t].kind = "batch" /\ Alive(t)) =>
            /\ NoDuplicates(coro[t].log)
            /\ (coro[t].pc = "report" /\ ~coro[t].stopped) =>
                   {coro[t].log[i] : i \in DOMAIN coro[t].log} = Supported(coro[t].links)

\* A candidate is in flight after every candidate before it has failed.
C9_Witness ==
    \E t \in Tasks :
        /\ coro[t].kind = "batch" /\ coro[t].pc = "fetch"
        /\ \A i \in DOMAIN coro[t].links : coro[t].links[i] = "direct"
        /\ coro[t].ok = 0 /\ coro[t].fail = 2 /\ Len(coro[t].log) = 3

\* The categories a batch processes.
Groups == {"direct", "unknown", "gdrive", "m3u8"}

\* The log of a batch never has an item of a later group before an item of an
\* earlier group, the groups being ranked by rank.
InGroupOrder(c, rank) ==
    \A i, j \in DOMAIN c.log :
        i < j => rank[Category(c.links[c.log[i]])] <= rank[Category(c.links[c.log[j]])]

\* The order of the groups as the claim has it, and as the loops run.
DriveFirstRank ==
    [cat \in Groups |-> IF cat = "gdrive" THEN 1 ELSE IF cat = "m3u8" THEN 3 ELSE 2]
DirectFirstRank ==
    [cat \in Groups |-> IF cat = "gdrive" THEN 2 ELSE IF cat = "m3u8" THEN 3 ELSE 1]

\* C10 as claimed: all cloud-drive links are processed first, then all direct
\* and unknown candidates, then all streaming-manifest links.
C10_DriveLinksFirst ==
    \A t \in Tasks :
        (coro[t].kind = "batch" /\ Alive(t)) => InGroupOrder(coro[t], DriveFirstRank)

\* C10 as amended: all direct and unknown candidates are processed first, then
\* all cloud-drive links, then all streaming-manifest links; no item of a
\* later group starts before the earlier groups are done.
C10_DirectLinksFirst ==
    \A t \in Tasks :
        (coro[t].kind = "batch" /\ Alive(t)) => InGroupOrder(coro[t], DirectFirstRank)

\* A batch with a link of each group has processed all three.
C10_Witness ==
    \E t \in Tasks :
        /\ coro[t].kind = "batch" /\ coro[t].pc = "report" /\ ~coro[t].stopped
        /\ coro[t].links = <<"m3u8", "gdrive", "direct">>
        /\ coro[t].log = <<3, 2, 1>>

\* ------------------------------------------------ the temp-file registry
\* C11: TTL correctness. When the scan of a pass has ended, the documents it
\* is about to delete are exactly those of the collection with
\* created_at + ttl_min <= now; the deletion removes only such documents,
\* whose paths are among the returned paths, and leaves none of them behind:
\* every document with created_at + ttl_min > now stays.
C11_TtlCorrectness ==
    /\ [](sweep.pc = "delete" =>
            sweep.expired_ids =
                {d.id : d \in {e \in files_col : e.created_at + e.ttl_min <= sweep.now}})
    /\ [](sweep.pc = "unlink" =>
            \A d \in files_col : d.created_at + d.ttl_min > sweep.now)
    /\ [][\A d \in files_col :
              d \notin files_col' =>
                  /\ d.created_at + d.ttl_min <= sweep.now
                  /\ d.path \in DOMAIN sweep.expired_paths]_vars

\* A pass has deleted a document and left one that expires a minute after
\* its now.
C11_Witness ==
    /\ sweep.pc = "unlink" /\ DOMAIN sweep.expired_paths # {}
    /\ \E d \in files_col : d.created_at + d.ttl_min = sweep.now + 1

\* C12: sweep idempotence. A pass that follows another deletes no document
\* that was expired at the earlier pass's now; with the same now it returns
\* no path and leaves the collection as it is.
C12_SweepIdempotent ==
    /\ []((sweep.swept /\ sweep.pc \in {"delete", "unlink"}) =>
            /\ \A d \in files_col :
                   d.id \in sweep.expired_ids =>
                       d.created_at + d.ttl_min > sweep.prev_now
            /\ sweep.now = sweep.prev_now => DOMAIN sweep.expired_paths = {})
    /\ [][(sweep.swept /\ sweep.pc # "sleep" /\ sweep.now = sweep.prev_now
             /\ sweep' # sweep) => files_col' = files_col]_vars

\* A pass deleted something; the next pass, with the same now and with no
\* registration since, has returned nothing.
C12_Witness ==
    /\ sweep.swept /\ sweep.pc = "unlink" /\ sweep.now = sweep.prev_now
    /\ sweep.prev_hit
    /\ DOMAIN sweep.expired_paths = {} /\ files_col = {} /\ inserts = {}

\* Every task entry names a temp directory.
EntryPaths == {e.base_dir : e \in tasks} \cup {e.temp_root : e \in M3U8_TASKS}

\* C13: every path referred to by an unzip task entry or a quality-select
\* task entry has a live record in the collection.
C13_TaskPathsHaveRecord ==
    \A p \in EntryPaths : \E d \in files_col : d.path = p

\* C14: no pass removes the record or the subtree of a temp directory while
\* the handler that made it is still working in it.
C14_NoSweepInFlight ==
    \A j \in Jobs :
        job[j].pc = "work" =>
            /\ job[j].path \in disk
            /\ \E d \in files_col : d.path = job[j].path

\* C15: registration precedes writes. A handler that has written output
\* under its temp directory had register_temp_path return before.
C15_RegisteredBeforeWrite ==
    \A j \in Jobs : job[j].wrote => job[j].registered

\* An audio extraction is writing under its registered directory.
C15_Witness ==
    \E j \in Jobs :
        /\ job[j].kind = "audio" /\ job[j].pc = "work"
        /\ job[j].wrote /\ job[j].registered
        /\ \E d \in files_col : d.path = job[j].path

\* C16: every temp directory on disk is tracked: it has a record, or a
\* record on its way into the collection, or the cleanup worker holds its
\* path for deletion.
C16_EveryDirTracked ==
    \A p \in disk :
        \/ \E d \in files_col \cup inserts : d.path = p
        \/ sweep.pc # "sleep" /\ p \in DOMAIN sweep.expired_paths

\* The outcomes that are fatal for the whole request.
FatalOutcomes == {"needs_password", "no_links"}

\* C17: a request that ended because the archive is encrypted and no
\* password was given, or because zero links were parsed, has registered no
\* record.
C17_FatalBeforeRegistration ==
    \A j \in Jobs :
        (job[j].pc = "end" /\ job[j].outcome \in FatalOutcomes) => ~job[j].registered

\* C18: sweep ordering. While a path that a pass found expired is still on
\* disk, its record is still in the collection.
C18_SubtreeBeforeRecord ==
    sweep.pc # "sleep" =>
        \A p \in DOMAIN sweep.expired_paths :
            p \in disk => \E d \in files_col : Expired(d, sweep.now) /\ d.path = p

\* C19: a pass that runs beside registrations deletes only documents that
\* were stored when it began and were expired at its now; a document stored
\* while the pass is in progress is never deleted by it.
C19_SweepBesideRegistrations ==
    [][\A d \in files_col :
          d \notin files_col' =>
              /\ d.id \in sweep.base
              /\ d.created_at + d.ttl_min <= sweep.now]_vars

\* A pass has deleted a document, and a document stored during the pass is
\* still in the collection.
C19_Witness ==
    /\ sweep.pc = "unlink" /\ DOMAIN sweep.expired_paths # {}
    /\ \E d \in files_col : d.id \notin sweep.base

\* C20: a duplicate registration is harmless. After a pass, no record of a
\* path it returned is left that was expired at its now, however often the
\* path was registered, and the path is on disk only if a registration of it
\* is still live.
C20_DuplicateHarmless ==
    (sweep.pc = "sleep" /\ sweep.swept) =>
        \A p \in DOMAIN sweep.expired_paths :
            /\ \A d \in files_col :
                   d.path = p => d.created_at + d.ttl_min > sweep.now
            /\ p \in disk => \E d \in files_col \cup inserts : d.path = p

\* A path was registered twice, both records expired, and one pass has
\* removed both and the directory.
C20_Witness ==
    /\ sweep.pc = "sleep" /\ sweep.swept
    /\ \E p \in DOMAIN sweep.expired_paths :
           /\ sweep.expired_paths[p] = 2
           /\ p \notin disk
           /\ \A d \in files_col \cup inserts : d.path # p

\* ------------------------------------------------- quality-select tasks
\* C21: a quality-select task is discarded after one materialization. Once a
\* choice that called download_m3u8_stream has run to its end (the remux
\* succeeded, the remux failed, or the delivery failed), its task id is no
\* longer in the table.
C21_DiscardedAfterChoice ==
    \A t \in Tasks :
        (coro[t].kind = "m3q" /\ coro[t].pc = "end" /\ coro[t].started) =>
            coro[t].task_id \notin {e.id : e \in M3U8_TASKS}

\* C22: no reuse of a task id. No two choices on one task id have both
\* called download_m3u8_stream, whether one after the other or while the
\* first is still remuxing.
C22_OneMaterialization ==
    \A a, b \in Tasks :
        (/\ a # b
         /\ coro[a].kind = "m3q" /\ coro[a].started
         /\ coro[b].kind = "m3q" /\ coro[b].started)
        => coro[a].task_id # coro[b].task_id

\* ------------------------------------------------------ helper functions
\* The resolution a sub-playlist advertises, and its bandwidth.
Advertised(x) == x # <<>>

\* C23 as claimed: one entry per sub-playlist in manifest order, labelled
\* "{height}p" when a resolution is advertised and otherwise
\* "{bandwidth div 1000}kbps"; for a manifest without sub-playlists exactly
\* one entry "Auto" with the manifest's URL.
C23_VariantLabels ==
    call.fn = "get_m3u8_variants" =>
        LET pls == call.in.playlists
        IN  IF pls = <<>>
            THEN call.out = <<[name |-> [unit |-> "Auto", n |-> 0], url |-> call.in.url]>>
            ELSE /\ Len(call.out) = Len(pls)
                 /\ \A i \in DOMAIN pls :
                       /\ call.out[i].url = pls[i].absolute_uri
                       /\ IF pls[i].stream_info /\ Advertised(pls[i].resolution)
                          THEN call.out[i].name = [unit |-> "p", n |-> pls[i].resolution[2]]
                          ELSE /\ call.out[i].name.unit = "kbps"
                               /\ Advertised(pls[i].bandwidth) =>
                                     call.out[i].name.n = pls[i].bandwidth[1] \div 1000

\* C23 as amended: as claimed, except that a sub-playlist with no resolution
\* is labelled "{bandwidth div 1000}kbps" only when it advertises a bandwidth
\* that is not zero, and "Variant" otherwise.
C23_VariantLabelsOrVariant ==
    call.fn = "get_m3u8_variants" =>
        LET pls == call.in.playlists
        IN  IF pls = <<>>
            THEN call.out = <<[name |-> [unit |-> "Auto", n |-> 0], url |-> call.in.url]>>
            ELSE /\ Len(call.out) = Len(pls)
                 /\ \A i \in DOMAIN pls :
                       /\ call.out[i].url = pls[i].absolute_uri
                       /\ call.out[i].name =
                             IF pls[i].stream_info /\ Advertised(pls[i].resolution)
                             THEN [unit |-> "p", n |-> pls[i].resolution[2]]
                             ELSE IF /\ pls[i].stream_info
                                     /\ Advertised(pls[i].bandwidth)
                                     /\ pls[i].bandwidth[1] # 0
                             THEN [unit |-> "kbps", n |-> pls[i].bandwidth[1] \div 1000]
                             ELSE [unit |-> "Variant", n |-> 0]

\* A manifest of two sub-playlists, the first with a resolution and a
\* bandwidth, the second with a bandwidth only, has been resolved.
C23_Witness ==
    /\ call.fn = "get_m3u8_variants"
    /\ Len(call.in.playlists) = 2
    /\ call.in.playlists[1].resolution # <<>> /\ call.in.playlists[1].bandwidth = <<2500>>
    /\ call.in.playlists[2].resolution = <<>> /\ call.in.playlists[2].bandwidth = <<2500>>
    /\ call.in.playlists[2].stream_info
    /\ call.out[1].name = [unit |-> "p", n |-> 720]
    /\ call.out[2].name = [unit |-> "kbps", n |-> 2]

\* The categories of a link.
Categories == {"gdrive", "telegram", "m3u8", "direct", "unknown"}

\* The path of a URL ends in an extension of the set, case ignored.
PathEndsIn(r, exts) == \E ext \in exts : EndsWith(Lower(r.path), ext)

\* C24: classify follows the precedence for every URL: cloud_drive when the
\* host contains the cloud-drive domain, else platform_internal when the host
\* is the messaging platform's domain, else streaming_manifest when the path
\* ends in .m3u8, else direct when the path ends in an extension of the table,
\* else unknown; nothing outside the host makes a URL cloud_drive or
\* platform_internal.
C24_ClassifyPrecedence ==
    call.fn = "classify_link" =>
        call.out =
            IF Contains(Lower(call.in.host), "drive.google.com") THEN "gdrive"
            ELSE IF Lower(call.in.host) \in {"t.me", "telegram.me"} THEN "telegram"
            ELSE IF PathEndsIn(call.in, {".m3u8"}) THEN "m3u8"
            ELSE IF PathEndsIn(call.in, FILE_EXT) THEN "direct"
            ELSE "unknown"

\* C25: classification is total, and a URL whose path (query and fragment
\* removed, case ignored) ends in a known extension is never unknown.
C25_ClassifyTotal ==
    call.fn = "classify_link" =>
        /\ call.out \in Categories
        /\ PathEndsIn(call.in, FILE_EXT \cup {".m3u8"}) => call.out # "unknown"

\* A URL with an upper-case extension, a query and a fragment that holds a
\* "?" has been classified direct.
C25_Witness ==
    /\ call.fn = "classify_link"
    /\ call.in.path = "/V.MP4" /\ call.in.query = "?x=1" /\ call.in.fragment = "#a?b.zip"
    /\ call.out = "direct"

\* ------------------------------------------------------- unknown links
\* The positions of the unknown links of a text.
UnknownAt(links) == {i \in DOMAIN links : links[i] = "unknown"}

\* C26: fail-open for unknown links. Every unknown link of a batch that
\* reaches its report without stopping at a cancellation checkpoint has been
\* attempted, every attempted one is counted in ok or fail or is in flight,
\* and no text that has an unknown link is rejected as unsupported.
C26_UnknownFailOpen ==
    /\ \A t \in Tasks :
          (coro[t].kind = "batch" /\ Alive(t)) =>
              LET c == coro[t]
                  inflight == IF c.pc = "fetch" THEN 1 ELSE 0
              IN  /\ (c.pc = "report" /\ ~c.stopped) =>
                         /\ UnknownAt(c.links) \subseteq {c.log[i] : i \in DOMAIN c.log}
                         /\ c.ok + c.fail >= Cardinality(UnknownAt(c.links))
                  /\ CountIn(c.log, c.links, {"unknown"}) <= c.ok + c.fail + inflight
    /\ \A links \in BatchTexts : UnknownAt(links) # {} => ~Unsupported(links)

\* A batch of unknown links only has reached its report, with successes and
\* failures.
C26_Witness ==
    \E t \in Tasks :
        /\ coro[t].kind = "batch" /\ coro[t].pc = "report" /\ ~coro[t].stopped
        /\ Len(coro[t].links) = MaxLinks
        /\ \A i \in DOMAIN coro[t].links : coro[t].links[i] = "unknown"
        /\ Len(coro[t].log) = MaxLinks /\ coro[t].ok >= 1 /\ coro[t].fail >= 1

\* ------------------------------------------------------ duplicate links
\* How often x occurs in a list.
Occurrences(x, list) == Cardinality({i \in DOMAIN list : list[i] = x})

\* The URLs of a list of words, in their order, every occurrence kept.
RECURSIVE UrlsOf(_)
UrlsOf(words) ==
    IF words = <<>> THEN <<>>
    ELSE (IF WordUrl(Head(words)) = "" THEN <<>> ELSE <<WordUrl(Head(words))>>)
         \o UrlsOf(Tail(words))

\* The URLs of the files of a folder that are scanned, in the order of the
\* scan.
RECURSIVE ScannedUrls(_)
ScannedUrls(folder) ==
    IF folder = <<>> THEN <<>>
    ELSE (IF Head(folder).name # "cover.jpg" /\ Head(folder).readable
          THEN UrlsOf(Head(folder).words) ELSE <<>>)
         \o ScannedUrls(Tail(folder))

\* The position at which x is first seen in a list.
FirstSeen(x, list) == Least({i \in DOMAIN list : list[i] = x})

\* list holds each element of seen once, in the order they are first seen.
DedupOf(list, seen) ==
    /\ {list[i] : i \in DOMAIN list} = {seen[i] : i \in DOMAIN seen}
    /\ \A i, j \in DOMAIN list :
          i < j => FirstSeen(list[i], seen) < FirstSeen(list[j], seen)

\* C27: deduplication asymmetry. The link map of an extracted archive holds
\* each URL at most once per category, in first-seen order; the link list of
\* an inbound text keeps every occurrence, so a URL that occurs k times in
\* the text is k times in the list and, when it is a direct-fetch
\* candidate, is fetched k times by a batch.
C27_DedupAsymmetry ==
    /\ call.fn = "extract_links_from_folder" =>
          /\ \A kind \in DOMAIN call.out :
                DedupOf(call.out[kind],
                        SelectSeq(ScannedUrls(call.in),
                                  LAMBDA u : classify_link(u) = kind))
    /\ call.fn = "process_links_message" =>
          \A u \in {WordUrl(w) : w \in Words} \ {""} :
              /\ Occurrences(u, call.out.links) = Occurrences(u, UrlsOf(call.in))
              /\ classify_link(u) \in {"direct", "unknown"} =>
                    Occurrences(u, call.out.fetched) = Occurrences(u, UrlsOf(call.in))

\* A folder whose two files name one URL three times has been scanned: the
\* map holds it once.
C27_Witness ==
    /\ call.fn = "extract_links_from_folder"
    /\ Len(call.in) = 2
    /\ Occurrences("http://a/1.mp4", ScannedUrls(call.in)) = 3
    /\ Occurrences("http://a/1.mp4", call.out["direct"]) = 1

\* A text that names one URL three times has been stored: the list holds it
\* three times and the batch fetches it three times.
TextKeepsDuplicates ==
    /\ call.fn = "process_links_message"
    /\ Occurrences("http://a/1.mp4", call.out.links) = 3
    /\ Occurrences("http://a/1.mp4", call.out.fetched) = 3

\* C28 as claimed: the links stored for an inbound text hold no URL twice
\* and keep the order in which each URL was first seen.
C28_StoredLinksDeduplicated ==
    call.fn = "process_links_message" =>
        DedupOf(call.out.links, UrlsOf(call.in))

\* C28 as amended: the links stored for an inbound text are the URLs of the
\* text in their order of appearance, every occurrence kept; nothing is
\* stored for a text without a URL.
C28_StoredLinksInOrder ==
    call.fn = "process_links_message" =>
        /\ call.out.links = UrlsOf(call.in)
        /\ call.out.stored <=> UrlsOf(call.in) # <<>>

\* A text of three URLs, two of them the same with a comma after one, has
\* been stored.
C28_Witness ==
    /\ call.fn = "process_links_message"
    /\ call.in = <<"http://a/1.mp4,", "(HTTP://b/x).", "http://a/1.mp4">>
    /\ call.out.links = <<"http://a/1.mp4", "HTTP://b/x", "http://a/1.mp4">>

\* ------------------------------------------------- destination filename
\* The caller's fallback name.
FallbackName(d) ==
    IF d.file_name # "" THEN d.file_name
    ELSE IF RSplitLast(d.dest_path, "/") # "" THEN RSplitLast(d.dest_path, "/")
    ELSE "file"

\* C29: the destination filename of a direct fetch is the name of the
\* Content-Disposition header when there is one, otherwise the tail of the
\* URL path when it is not empty, otherwise the caller's fallback name.
C29_FilenamePriority ==
    call.fn = "download_file" =>
        call.out =
            IF DispositionName(call.in.cd) # "" THEN DispositionName(call.in.cd)
            ELSE IF RSplitLast(call.in.url.path, "/") # ""
            THEN RSplitLast(call.in.url.path, "/")
            ELSE FallbackName(call.in)

\* The same for the URLs that have a path.
FilenamePriorityWithPath ==
    (call.fn = "download_file" /\ call.in.url.path # "") => C29_FilenamePriority

\* ---------------------------------------------------- progress rate limit
\* The seconds between the report and the time in at, when there is one.
Since(r, at) == IF at = <<>> THEN PROGRESS_UPDATE_INTERVAL ELSE r.now - at[1]

\* C30: for one status message a progress update is emitted only when at
\* least the minimum interval has passed since the last emitted update or
\* when current = total; a report with current = total always emits; no two
\* emitted updates with current # total are closer than the interval.
C30_ProgressRateLimit ==
    LET r == progress.reported
    IN  r # NoReport =>
            /\ r.emitted => (Since(r, r.last_emit) >= PROGRESS_UPDATE_INTERVAL
                             \/ r.current = r.total)
            /\ r.current = r.total => r.emitted
            /\ (r.emitted /\ r.current # r.total) =>
                   Since(r, r.last_partial) >= PROGRESS_UPDATE_INTERVAL

\* The same for the first transfer that reports on the status message.
RateLimitInFirstTransfer ==
    progress.transfers <= 1 => C30_ProgressRateLimit

\* A report with current = total always emits.
CompletionEmits ==
    (progress.reported # NoReport
     /\ progress.reported.current = progress.reported.total) => progress.reported.emitted

\* ------------------------------------------------ best-effort progress
\* C31: a failed progress emission never aborts the transfer it reports on:
\* the reporter returns normally, and the transfer goes on to its own
\* outcome.
C31_EmissionFailureSwallowed ==
    /\ progress.reported.edit = "RPCError" => ~progress.reported.raised
    /\ progress.edit_failed => ~progress.aborted

\* A transfer has ended with its last byte through although an edit of its
\* status message failed.
C31_Witness ==
    /\ progress.edit_failed
    /\ progress.reported.edit = "RPCError"
    /\ progress.transfers > 0
    /\ progress.direction = "none"
    /\ progress.current = progress.total

\* ------------------------------------------------------- password errors
\* An extraction in slot t has ended with the reply for a decode failure.
ExtractErrorAt(t) ==
    coro[t].kind = "unzip" /\ coro[t].pc = "end" /\ coro[t].outcome = "extract_error"

\* C32: a wrong or missing password is reported with the needs-password
\* outcome, which is not the outcome of a corrupt archive or of any other
\* decode failure: no extraction that was given a wrong password ends with
\* the reply for a decode failure.
C32_PasswordOutcomeDistinct ==
    \A t \in Tasks : ExtractErrorAt(t) => coro[t].diagnostic # "wrong_password"

\* ------------------------------------------------------ get_or_create_user
\* C33: get_or_create_user is idempotent: every call, two calls for a new
\* user interleaved at their awaits included, returns a user record without
\* error, and the collection holds one record for the id.
C33_GetOrCreateIdempotent ==
    \A c \in Callers :
        users.get[c].pc = "end" =>
            /\ users.get[c].out = "user"
            /\ Len(users.col[users.get[c].user_id]) = 1

\* --------------------------------------------------------- pinned status
\* C34: a batch that pinned its status message unpins it when it ends, on
\* every way it can end: no batch has returned with its message pinned and
\* unpin_chat_message not called.
C34_UnpinnedAtEnd ==
    \A t \in Tasks :
        (coro[t].kind = "batch" /\ coro[t].pc = "end") => coro[t].pin # "pinned"

\* The same for the batches that end with their report.
UnpinnedAfterReport ==
    \A t \in Tasks :
        (coro[t].kind = "batch" /\ coro[t].pc = "end" /\ coro[t].outcome = "complete")
        => coro[t].pin # "pinned"

\* ---------------------------------------------------------- task ownership
\* Files of a task were delivered by a callback in slot t.
Delivered(t) == coro[t].kind \in {"sendall", "sendone"} /\ coro[t].sent > 0

\* C35: a task is acted on only by its owner: a send-one, send-all or
\* cancel-session event of another user neither delivers files nor removes
\* the task.
C35_OwnerOnly ==
    \A t \in Tasks :
        /\ Delivered(t) => coro[t].user = coro[t].owner
        /\ (coro[t].kind = "ucancel" /\ coro[t].removed # 0) =>
               coro[t].user = coro[t].removed

\* Files are delivered to the owner of the task only.
DeliveredToOwner == \A t \in Tasks : Delivered(t) => coro[t].user = coro[t].owner

\* ------------------------------------------------- files stay in the batch
\* The file at path lies under directory root.
Inside(path, root) ==
    LET p == Resolve(Components(path), <<>>)
        r == Resolve(Components(root), <<>>)
    IN  Len(p) > Len(r) /\ SubSeq(p, 1, Len(r)) = r

\* C36: every file a batch item writes lies inside the batch's temp
\* directory, for every name the server can send in Content-Disposition and
\* every URL path tail.
C36_WritesInsideTempDir ==
    call.fn = "download_file" => Inside(call.final_path, dirname(call.in.dest_path))

\* The same for the responses without a name in Content-Disposition.
UrlTailInsideTempDir ==
    (call.fn = "download_file" /\ DispositionName(call.in.cd) = "") =>
        Inside(call.final_path, dirname(call.in.dest_path))

\* ------------------------------------------------------- busy rejection
\* The step starts a request in slot t and answers it busy.
BusyRejected(t) ==
    /\ coro[t].pc \in {"idle", "end"}
    /\ coro'[t] # coro[t]
    /\ coro'[t].pc = "end" /\ coro'[t].outcome = "busy"

\* C37: a busy-rejected request changes nothing: the slot, the user's
\* cancellation flag, the temp-resource registry and the task table are as
\* before, and the running task is not affected.
C37_BusyRejectionNoEffect ==
    [][\A t \in Tasks :
          BusyRejected(t) =>
              /\ user_locks' = user_locks
              /\ user_cancelled' = user_cancelled
              /\ tasks' = tasks
              /\ <<files_col, inserts, disk>>' = <<files_col, inserts, disk>>
              /\ \A s \in Tasks \ {t} : coro'[s] = coro[s]]_vars

\* A request was answered busy while a task of the user held the slot with
\* the user's cancellation flag set.
C37_Witness ==
    \E t, s \in Tasks :
        /\ coro[t].pc = "end" /\ coro[t].outcome = "busy"
        /\ Holds(s) /\ coro[s].user = coro[t].user
        /\ user_cancelled[coro[t].user]

\* ------------------------------------------- no task without an extraction
\* The outcomes of an extraction that failed or was cancelled.
FailedOutcomes ==
    {"download_failed", "download_missing", "needs_password", "extract_error",
     "cancelled"}

\* The step ends the extraction in slot t.
UnzipEnds(t) == coro[t].kind = "unzip" /\ coro[t].pc # "end" /\ coro'[t].pc = "end"

\* C38: a cancelled or failed extraction creates no DeliveryTask. An entry
\* is added only by the extraction step that passes the checkpoint after
\* extract_archive with the flag clear; a step that ends an extraction adds
\* none, and an extraction that has added one does not end as failed or
\* cancelled.
C38_TaskOnlyAfterCheckpoint ==
    [][/\ (tasks' \ tasks # {}) =>
              \E t \in Tasks :
                  /\ coro[t].kind = "unzip" /\ coro[t].pc = "extract"
                  /\ coro'[t].pc = "summary"
                  /\ ~user_cancelled[coro[t].user]
                  /\ \A e \in tasks' \ tasks : e.user_id = coro[t].user
       /\ \A t \in Tasks :
              UnzipEnds(t) =>
                  /\ tasks' \ tasks = {}
                  /\ coro[t].pc = "summary" => coro'[t].outcome \notin FailedOutcomes
                  /\ coro[t].pc # "summary" => coro'[t].outcome # "success"]_vars

\* One user's extraction was stopped at a checkpoint and left no entry; the
\* only entry of the table is that of another user's extraction.
C38_Witness ==
    \E t, s \in Tasks :
        /\ coro[t].kind = "unzip" /\ coro[t].pc = "end" /\ coro[t].outcome = "cancelled"
        /\ coro[s].kind = "unzip" /\ coro[s].pc = "summary"
        /\ tasks = {[id |-> 1, user_id |-> coro[s].user]}

\* ------------------------------------------------------ stale cancellation
\* C39: a cancel request made while the user has no running task does not
\* affect the next task the user starts: a batch is stopped at a checkpoint
\* only when the user asked to cancel while it was running.
C39_StaleCancelIgnored ==
    \A t \in Tasks :
        (coro[t].kind = "batch" /\ Alive(t) /\ coro[t].stopped) => coro[t].asked

\* An extraction is stopped at a checkpoint only with the flag set, and the
\* flag is clear when it enters its lock.
ExtractionStartsClear ==
    [][\A t \in Tasks :
          (coro'[t].kind = "unzip" /\ coro'[t].pc = "download" /\ coro[t].pc # "download")
          => ~user_cancelled'[coro'[t].user]]_vars

\* ------------------------------------------------- cross-user independence
\* The slot or the flag of user u changes in the step.
SlotChanged(u) ==
    user_locks'[u] # user_locks[u] \/ user_cancelled'[u] # user_cancelled[u]

\* C40: cross-user independence. A step changes the slot and flag of one
\* user at most, the user of the coroutine that takes it; a request is
\* answered busy only when the slot of its own user is held, and a task is
\* stopped at a checkpoint only when the flag of its own user is set.
C40_CrossUserIndependence ==
    [][/\ \A a, b \in Users : (SlotChanged(a) /\ SlotChanged(b)) => a = b
       /\ \A t \in Tasks :
              coro'[t] # coro[t] =>
                  \A b \in Users \ {coro'[t].user} : ~SlotChanged(b)
       /\ \A t \in Tasks : BusyRejected(t) => user_locks[coro'[t].user].locked
       /\ \A t \in Tasks :
              (coro[t].pc # "end" /\ coro'[t].pc = "end" /\ coro'[t].stopped)
              => user_cancelled[coro'[t].user]]_vars

\* Two users run a task each, one with the cancellation flag set and one
\* with it clear.
C40_Witness ==
    \E t, s \in Tasks :
        /\ Holds(t) /\ Holds(s) /\ coro[t].user # coro[s].user
        /\ user_cancelled[coro[t].user] /\ ~user_cancelled[coro[s].user]

====
